---- MODULE Spec2Model ----
(***************************************************************************)
(* Model of the L2 fusion coordinator: the Node Registry, the Task Manager *)
(* and the Fusion Manager's threads (include/l2_fusion_manager.h,          *)
(* include/task_manager.h).                                                *)
(***************************************************************************)
EXTENDS Integers, Sequences, FiniteSets, TLC

(***************************************************************************)
(* Bounds of the model.                                                    *)
(***************************************************************************)
\* the steady clock runs over 0..MaxTime
MaxTime == 3
\* node_timeout of the model's configuration, in clock ticks
NodeTimeout == 2

NodeIds == {"A", "B"}
NodeTypes == {"radar"}
NodeStatuses == {"ONLINE", "OFFLINE"}

VARIABLES
    \* ---- NodeRegistry
    nodes_,          \* node_id -> NodeIdentity (its node_type)
    last_seen_,      \* node_id -> time_point
    node_status_,    \* node_id -> NodeStatus
    now,             \* std::chrono::steady_clock::now()
    regOp,           \* the last registry call and what it returned
    reported,        \* per id, in how many sweeps' results it was (0, 1, or 2 for more)
    evictedSince     \* ids a sweep returned that no call has written since

regVars == <<nodes_, last_seen_, node_status_, now, regOp, reported, evictedSince>>

VARIABLES
    \* ---- TaskManager
    tasks_,                  \* task_id -> Task
    target_to_tasks_,        \* target_id -> task ids
    device_to_tasks_,        \* device_id -> task ids
    target_primary_device_,  \* target_id -> device_id
    next_task_id_,
    tmOp,                    \* the last Task Manager call and what it returned
    issued,                  \* the task ids create_task has returned so far
    last_cleanup_time_       \* when update_all_tasks last found a cleanup due

tmVars == <<tasks_, target_to_tasks_, device_to_tasks_, target_primary_device_,
            next_task_id_, tmOp, issued, last_cleanup_time_>>

VARIABLES
    \* ---- L2FusionManager
    config_,                \* L2Config: worker_threads, message_queue_size
    algorithm_,             \* the installed algorithm instance, NoAlgorithm if none
    running_,
    subscription_running_,
    message_queue_,         \* ids of the queued inbound messages, front first
    algorithm_mutex_,       \* std::shared_mutex: its exclusive and shared owners
    context_mutex_,         \* the thread that owns it, NoThread if free
    queue_mutex_,           \* the thread that owns it, NoThread if free
    pending_outputs,        \* AlgorithmContext::pending_outputs
    pc,                     \* where each thread is in its code
    message,                \* worker_thread_func: the message each worker took
    messages_to_send,       \* send_pending_outputs: each thread's local vector
    removed,                \* node_monitor_thread_func: removed_nodes still to report
    inbound,                \* handle_l1_message: the message being handled
    \* ---- the environment and what has been observed
    arrived,                \* number of messages the bus has delivered so far
    dropped,                \* ids enqueue_message popped from a full queue
    processed,              \* ids passed to process_l1_message, in call order
    calls,                  \* number of hook calls that emitted outputs so far
    emitting,               \* outputs the running hook call has appended so far
    outLeft,                \* outputs the algorithm will still emit
    published,              \* outputs handed to publish on l2_to_l1, in order
    initialized,            \* initialize has returned and shutdown has not begun
    overlooked,             \* ids the monitor's latest sweep left in the registry timed out
    algorithmAtStart,       \* the instance start() initialized
    triggers,               \* handle_trigger("node_timeout", id) calls per id
    thrown,                 \* the calls of start() that threw, counted up to one
    messages_processed_,    \* std::atomic<uint64_t> messages_processed_
    messages_sent_,         \* std::atomic<uint64_t> messages_sent_
    threw,                  \* ids whose process_l1_message call threw
    failed,                 \* outputs whose publish on l2_to_l1 threw
    pendingAtStop,          \* ids that were in message_queue_ when a stop() began
    \* ---- a TargetPrioritizer and its caller
    target_list,            \* the caller's std::vector<Target*> targets
    given,                  \* the vector as the caller built it
    prioritized,            \* what prioritize_targets returned
    best,                   \* what select_highest_priority_target returned
    stratOp,                \* the latest call of the prioritizer
    \* ---- FusionAlgorithm, AlgorithmContext and TaskStateMachine
    state_manager_,         \* StateManager: states_, transitions_, initial_state_
    task_state_machine_,    \* TaskStateMachine: states_, transitions_, current_state_
    current_state_name,     \* AlgorithmContext::current_state_name
    current_state,          \* AlgorithmContext::current_state: the name of the State it points to
    algorithm_data,         \* AlgorithmContext::algorithm_data
    last_status_time_,      \* TargetTrackingAlgorithm::last_status_time_
    effects,                \* the hooks and assignments of the latest try_transition, in order
    smOp,                   \* the latest state machine call and its result
    algOp,                  \* the latest call of the algorithm and the state it began in
    updated,                \* update ran since the clock last advanced
    message_history         \* AlgorithmContext::message_history: node_id -> message ids

mgrVars == <<config_, algorithm_, running_, subscription_running_, message_queue_,
             algorithm_mutex_, context_mutex_, queue_mutex_, pending_outputs, pc,
             message, messages_to_send, removed, inbound>>

envVars == <<arrived, dropped, processed, calls, emitting, outLeft, published,
             initialized, overlooked, algorithmAtStart, triggers>>

\* the algorithm's state machine and context, and the per-task state machine
algVars == <<state_manager_, task_state_machine_, current_state_name, current_state,
             algorithm_data, last_status_time_, effects, smOp, algOp, updated,
             message_history>>

\* what the reference algorithm keeps besides its state machine
trackVars == <<algorithm_data, last_status_time_, algOp, updated, message_history>>

\* the statistics counters and the calls that ended in an exception
statVars == <<messages_processed_, messages_sent_, threw, failed>>

\* the caller of a prioritizer
stratVars == <<target_list, given, prioritized, best, stratOp>>

callVars == <<thrown, messages_processed_, messages_sent_, threw, failed, pendingAtStop,
              target_list, given, prioritized, best, stratOp>>

vars == <<regVars, tmVars, mgrVars, envVars, algVars, callVars>>

(***************************************************************************)
(* std::unordered_map helpers.                                             *)
(***************************************************************************)
EmptyMap == [k \in {} |-> 0]

MapPut(m, k, v) == [x \in (DOMAIN m) \cup {k} |-> IF x = k THEN v ELSE m[x]]

\* an erase that removes nothing
MapErase_kept(m, ks) == m

\* erase of each key of ks
MapErase(m, ks) == [x \in (DOMAIN m) \ ks |-> m[x]]

(***************************************************************************)
(* NodeRegistry                                                            *)
(***************************************************************************)
NoOp == [op |-> "none", ids |-> {}]

\* ids a get_active_nodes(timeout) call returns
get_active_nodes(ls, t, timeout) == {id \in DOMAIN ls : t - ls[id] < timeout}

\* a sweep that tests > where line 130 tests >=
TimedOutIds_strict(ls, t, timeout) == {id \in DOMAIN ls : t - ls[id] > timeout}

\* the test of line 130: the entries the sweep erases from the maps
TimedOutIds(ls, t, timeout) == {id \in DOMAIN ls : t - ls[id] >= timeout}

\* a sweep that reports every entry it visits, not only the ones it erases
removed_nodes_hoisted(ls, t, timeout) == DOMAIN ls

\* removed_nodes: the list check_and_remove_timed_out_nodes returns
removed_nodes(ls, t, timeout) == TimedOutIds(ls, t, timeout)

register_node(id, type) ==
    /\ nodes_' = MapPut(nodes_, id, type)
    /\ last_seen_' = MapPut(last_seen_, id, now)
    /\ regOp' = [op |-> "register", ids |-> {id}]
    /\ evictedSince' = evictedSince \ {id}
    /\ UNCHANGED <<node_status_, now, reported>>

update_node_heartbeat(id) ==
    /\ last_seen_' = MapPut(last_seen_, id, now)
    /\ regOp' = [op |-> "heartbeat", ids |-> {id}]
    /\ evictedSince' = evictedSince \ {id}
    /\ UNCHANGED <<nodes_, node_status_, now, reported>>

update_node_status(id, status) ==
    /\ node_status_' = MapPut(node_status_, id, status)
    /\ last_seen_' = MapPut(last_seen_, id, now)
    /\ regOp' = [op |-> "status", ids |-> {id}]
    /\ evictedSince' = evictedSince \ {id}
    /\ UNCHANGED <<nodes_, now, reported>>

remove_node(id) ==
    /\ nodes_' = MapErase(nodes_, {id})
    /\ last_seen_' = MapErase(last_seen_, {id})
    /\ node_status_' = MapErase(node_status_, {id})
    /\ regOp' = [op |-> "remove", ids |-> {id}]
    /\ UNCHANGED <<now, reported, evictedSince>>

check_and_remove_timed_out_nodes(timeout) ==
    LET gone == TimedOutIds(last_seen_, now, timeout)
        ret == removed_nodes(last_seen_, now, timeout)
    IN  /\ nodes_' = MapErase(nodes_, gone)
        /\ node_status_' = MapErase(node_status_, gone)
        /\ last_seen_' = MapErase(last_seen_, gone)
        /\ regOp' = [op |-> "sweep", ids |-> ret]
        /\ reported' = [id \in NodeIds |-> IF id \in ret /\ reported[id] < 2
                                        THEN reported[id] + 1 ELSE reported[id]]
        /\ evictedSince' = evictedSince \cup ret
        /\ UNCHANGED now

\* an observer's get_active_nodes(timeout) call
ObserveActive(timeout) ==
    /\ regOp' = [op |-> "active", ids |-> get_active_nodes(last_seen_, now, timeout)]
    /\ UNCHANGED <<nodes_, last_seen_, node_status_, now, reported, evictedSince>>

\* the steady clock advances
Tick ==
    /\ now < MaxTime
    /\ now' = now + 1
    /\ UNCHANGED <<nodes_, last_seen_, node_status_, regOp, reported, evictedSince>>

RegInit ==
    /\ nodes_ = EmptyMap
    /\ last_seen_ = EmptyMap
    /\ node_status_ = EmptyMap
    /\ now = 0
    /\ regOp = NoOp
    /\ reported = [id \in NodeIds |-> 0]
    /\ evictedSince = {}



\* C1: every node id present in one of the three registry maps (identity,
\* last_seen, status) is present in all three.
RegistryConsistent ==
    /\ DOMAIN nodes_ = DOMAIN last_seen_
    /\ DOMAIN last_seen_ = DOMAIN node_status_

\* C4 as stated: once a sweep has returned an id, no later get_active_nodes
\* call returns it.
NeverActiveAfterEvicted ==
    regOp.op = "active" => \A id \in regOp.ids : reported[id] = 0

\* C4 amended: an id a sweep has returned is in no later get_active_nodes
\* result unless register, heartbeat or status wrote it again after the sweep.
NotActiveWhileEvicted ==
    regOp.op = "active" => regOp.ids \cap evictedSince = {}

\* a get_active_nodes call made after a sweep evicted a node, with another
\* node still active
SweepAtomicWitness ==
    /\ regOp.op = "active"
    /\ evictedSince # {}
    /\ regOp.ids # {}

(***************************************************************************)
(* TaskManager                                                             *)
(***************************************************************************)
\* task ids task_1 .. task_<MaxTasks> are handed out in the model
MaxTasks == 3

TargetIds == {"target_0", "target_1"}
DeviceIds == {"dev_a", "dev_b"}
\* std::string{}: the device_id_ of a task no device was assigned to
NoDevice == ""

\* steady_clock::time_point{}, and an absent time_point entry of algorithm_data
NoTime == -1

TaskIds == 1..MaxTasks

\* task_list.erase(std::remove(begin, end, task_id), end)
EraseValue(list, x) == SelectSeq(list, LAMBDA e : e # x)

SeqToSet(list) == {list[i] : i \in DOMAIN list}

\* Task::Status
Statuses == {"CREATED", "ASSIGNED", "ACTIVE", "PAUSED", "COMPLETED", "FAILED", "CANCELLED"}
Terminal == {"COMPLETED", "FAILED", "CANCELLED"}

\* progress_percentage_ is kept in tenths of a percent: 100.0f
Percent100 == 1000

\* Task::Task: a new task has no device, status CREATED, progress 0 and
\* neither a start nor a completion time (started and completed tell whether
\* started_time_ and completed_time_ have been stamped)
NewTask(target_id) ==
    [target_id |-> target_id, device_id |-> NoDevice, status |-> "CREATED",
     progress |-> 0, started |-> FALSE, completed |-> FALSE, completed_time |-> NoTime]

\* line 221: the progress after set_status(status) of a terminal status
progress_after_status(progress, status) ==
    IF status = "COMPLETED" THEN Percent100 ELSE progress

\* Task::set_status
set_status(task, status) ==
    [task EXCEPT !.status = status,
                 !.started = IF status = "ACTIVE" THEN TRUE ELSE @,
                 !.completed = IF status \in Terminal THEN TRUE ELSE @,
                 !.completed_time = IF status \in Terminal THEN now ELSE @,
                 !.progress = IF status \in Terminal
                              THEN progress_after_status(@, status) ELSE @]

\* a clamp without the upper bound
clamp_open(v, lo, hi) == IF v < lo THEN lo ELSE v

\* std::clamp
clamp(v, lo, hi) == IF v < lo THEN lo ELSE IF hi < v THEN hi ELSE v

\* Task::set_progress
set_progress(task, percentage) ==
    [task EXCEPT !.progress = clamp(percentage, 0, Percent100)]

\* Task::set_device_id
set_device_id(task, device_id) ==
    [task EXCEPT !.device_id = device_id,
                 !.status = IF task.status = "CREATED" THEN "ASSIGNED" ELSE task.status]

\* std::unordered_map::operator[]: a missing bucket is created empty
Bucket(m, k) == IF k \in DOMAIN m THEN m[k] ELSE <<>>

\* a call on an unknown task id that reports success
not_found_ok(op, task_id, device_id) ==
    [op |-> op, task |-> task_id, device |-> device_id, ok |-> TRUE]

\* lines 392-395 and 505-508: the call found no task under task_id and
\* returns false
not_found(op, task_id, device_id) ==
    [op |-> op, task |-> task_id, device |-> device_id, ok |-> FALSE]

\* a counter that create_task leaves as it was
next_id_stuck(n) == n

\* line 378: next_task_id_++
next_id(n) == n + 1

create_task(target_id) ==
    /\ next_task_id_ <= MaxTasks
    /\ LET task_id == next_task_id_
       IN  /\ next_task_id_' = next_id(next_task_id_)
           /\ issued' = issued \cup {task_id}
           /\ UNCHANGED last_cleanup_time_
           /\ tasks_' = MapPut(tasks_, task_id, NewTask(target_id))
           /\ target_to_tasks_' = MapPut(target_to_tasks_, target_id,
                                         Append(Bucket(target_to_tasks_, target_id), task_id))
           /\ tmOp' = [op |-> "create", task |-> task_id, device |-> NoDevice, ok |-> TRUE]
    /\ UNCHANGED <<device_to_tasks_, target_primary_device_>>

\* the target_primary_device_ map after assign_task_to_device of a task of
\* target_id, when the update of line 413 is left out
primary_after_assign_unset(primary, target_id, device_id) == primary

\* line 413: the target_primary_device_ map after assign_task_to_device
primary_after_assign(primary, target_id, device_id) ==
    MapPut(primary, target_id, device_id)

assign_task_to_device(task_id, device_id) ==
    /\ UNCHANGED <<issued, last_cleanup_time_>>
    /\ IF task_id \notin DOMAIN tasks_
       THEN /\ tmOp' = not_found("assign", task_id, device_id)
            /\ UNCHANGED <<tasks_, target_to_tasks_, device_to_tasks_,
                           target_primary_device_, next_task_id_>>
       ELSE LET task == tasks_[task_id]
                prev == task.device_id
                unlinked == IF prev # NoDevice
                            THEN MapPut(device_to_tasks_, prev,
                                        EraseValue(Bucket(device_to_tasks_, prev), task_id))
                            ELSE device_to_tasks_
            IN  /\ tasks_' = MapPut(tasks_, task_id, set_device_id(task, device_id))
                /\ device_to_tasks_' = MapPut(unlinked, device_id,
                                              Append(Bucket(unlinked, device_id), task_id))
                /\ target_primary_device_' =
                       primary_after_assign(target_primary_device_, task.target_id, device_id)
                /\ tmOp' = [op |-> "assign", task |-> task_id, device |-> device_id, ok |-> TRUE]
                /\ UNCHANGED <<target_to_tasks_, next_task_id_>>

\* a removal that keeps the list it emptied
drop_if_empty_never(m, k, list) == MapPut(m, k, list)

\* lines 518-521 and 531-533: the index m with the list of k replaced by
\* list, the entry of k being erased when list is empty
drop_if_empty(m, k, list) ==
    IF list = <<>> THEN MapErase(m, {k}) ELSE MapPut(m, k, list)

remove_task(task_id) ==
    /\ UNCHANGED <<issued, last_cleanup_time_>>
    /\ IF task_id \notin DOMAIN tasks_
       THEN /\ tmOp' = not_found("remove", task_id, NoDevice)
            /\ UNCHANGED <<tasks_, target_to_tasks_, device_to_tasks_,
                           target_primary_device_, next_task_id_>>
       ELSE LET target_id == tasks_[task_id].target_id
                device_id == tasks_[task_id].device_id
                tlist == EraseValue(Bucket(target_to_tasks_, target_id), task_id)
                dlist == EraseValue(Bucket(device_to_tasks_, device_id), task_id)
            IN  /\ target_to_tasks_' =
                       IF target_id \notin DOMAIN target_to_tasks_ THEN target_to_tasks_
                       ELSE drop_if_empty(target_to_tasks_, target_id, tlist)
                /\ target_primary_device_' =
                       IF target_id \in DOMAIN target_to_tasks_ /\ tlist = <<>>
                       THEN MapErase(target_primary_device_, {target_id})
                       ELSE target_primary_device_
                /\ device_to_tasks_' =
                       IF device_id = NoDevice \/ device_id \notin DOMAIN device_to_tasks_
                       THEN device_to_tasks_
                       ELSE drop_if_empty(device_to_tasks_, device_id, dlist)
                /\ tasks_' = MapErase(tasks_, {task_id})
                /\ tmOp' = [op |-> "remove", task |-> task_id, device |-> NoDevice, ok |-> TRUE]
                /\ UNCHANGED next_task_id_

clear_all ==
    /\ tasks_' = EmptyMap
    /\ target_to_tasks_' = EmptyMap
    /\ device_to_tasks_' = EmptyMap
    /\ target_primary_device_' = EmptyMap
    /\ tmOp' = [op |-> "clear_all", task |-> 0, device |-> NoDevice, ok |-> TRUE]
    /\ UNCHANGED <<issued, last_cleanup_time_>>
    /\ UNCHANGED next_task_id_

TmInit ==
    /\ tasks_ = EmptyMap
    /\ target_to_tasks_ = EmptyMap
    /\ device_to_tasks_ = EmptyMap
    /\ target_primary_device_ = EmptyMap
    /\ next_task_id_ = 1
    /\ tmOp = [op |-> "none", task |-> 0, device |-> NoDevice, ok |-> TRUE]
    /\ issued = {}
    /\ last_cleanup_time_ = 0

\* C2 as stated: every stored task is in its target's list and, when it has a
\* device, in that device's list, and primary_device of its target is its device.
TaskIndexConsistent ==
    \A task_id \in DOMAIN tasks_ :
        LET t == tasks_[task_id]
        IN  /\ task_id \in SeqToSet(Bucket(target_to_tasks_, t.target_id))
            /\ t.device_id # NoDevice =>
                   /\ task_id \in SeqToSet(Bucket(device_to_tasks_, t.device_id))
                   /\ t.target_id \in DOMAIN target_primary_device_
                   /\ target_primary_device_[t.target_id] = t.device_id

\* C2 amended: every stored task is in its target's list and, when it has a
\* device, in that device's list and its target has a primary_device entry;
\* that entry is the device of the latest assign of a task of the target, so
\* right after assign(task_id, device_id) succeeds it equals device_id.
TaskIndexConsistentLastAssign ==
    /\ \A task_id \in DOMAIN tasks_ :
           LET t == tasks_[task_id]
           IN  /\ task_id \in SeqToSet(Bucket(target_to_tasks_, t.target_id))
               /\ t.device_id # NoDevice =>
                      /\ task_id \in SeqToSet(Bucket(device_to_tasks_, t.device_id))
                      /\ t.target_id \in DOMAIN target_primary_device_
    /\ (tmOp.op = "assign" /\ tmOp.ok) =>
           /\ tasks_[tmOp.task].device_id = tmOp.device
           /\ target_primary_device_[tasks_[tmOp.task].target_id] = tmOp.device

\* two tasks of one target assigned to different devices, the second by the
\* latest call
TaskIndexWitness ==
    /\ tmOp.op = "assign" /\ tmOp.ok
    /\ \E a, b \in DOMAIN tasks_ :
           /\ a # b
           /\ tasks_[a].target_id = tasks_[b].target_id
           /\ tasks_[a].device_id # NoDevice
           /\ tasks_[b].device_id # NoDevice
           /\ tasks_[a].device_id # tasks_[b].device_id


(***************************************************************************)
(* L2FusionManager: threads and locks                                      *)
(***************************************************************************)
\* the largest worker_threads of the model's configurations
MaxWorkers == 2
\* message_queue_size of the model's configurations
MessageQueueSize == 3

NoThread == "none"
NoAlgorithm == 0

Workers == {"w1", "w2"}
\* the threads start() spawns
Tasks == Workers \cup {"ticker", "heartbeat", "monitor", "subscription"}
\* "ctl" calls start() and stop(); "api" calls set_algorithm() and
\* trigger_algorithm_event()
Threads == Tasks \cup {"ctl", "api"}

\* the workers start() spawns for a configuration
SpawnedWorkers(cfg) ==
    IF cfg.worker_threads = 0 THEN {}
    ELSE IF cfg.worker_threads = 1 THEN {"w1"} ELSE Workers

SpawnedTasks(cfg) == (Tasks \ Workers) \cup SpawnedWorkers(cfg)

\* a thread is inside one of the algorithm's hooks
HookPcs == {"initialize", "process_l1_message", "update", "handle_trigger", "shutdown"}

InHook(t) == pc[t] \in HookPcs

\* ---- std::shared_mutex algorithm_mutex_
FreeSharedMutex == [writer |-> NoThread, readers |-> {}]

\* std::unique_lock algorithm_lock(algorithm_mutex_)
lock_unique(t) ==
    /\ algorithm_mutex_.writer = NoThread
    /\ algorithm_mutex_.readers = {}
    /\ algorithm_mutex_' = [algorithm_mutex_ EXCEPT !.writer = t]

\* std::shared_lock algorithm_lock(algorithm_mutex_)
lock_shared(t) ==
    /\ algorithm_mutex_.writer = NoThread
    /\ algorithm_mutex_' = [algorithm_mutex_ EXCEPT !.readers = @ \cup {t}]

\* a scope whose end releases an exclusive lock and keeps a shared one
unlock_algorithm_exclusive(t) ==
    algorithm_mutex_' = [algorithm_mutex_ EXCEPT !.writer = IF @ = t THEN NoThread ELSE @]

\* the locks' destructors at the end of the scope
unlock_algorithm(t) ==
    algorithm_mutex_' = [writer |-> IF algorithm_mutex_.writer = t THEN NoThread
                                    ELSE algorithm_mutex_.writer,
                         readers |-> algorithm_mutex_.readers \ {t}]

\* a context lock that does not wait for the owner
lock_context_no_wait(t) ==
    context_mutex_' = t

\* std::lock_guard<std::mutex> context_lock(context_mutex_)
lock_context(t) ==
    /\ context_mutex_ = NoThread
    /\ context_mutex_' = t

\* ---- hooks: what every call of the algorithm does to the context
\* the hook appends one more output to pending_outputs (add_output_message)
HookEmit(t) ==
    /\ InHook(t)
    /\ outLeft > 0
    /\ Len(emitting) < 2
    /\ LET call == IF emitting = <<>> THEN calls + 1 ELSE calls
           out == [call |-> call, seq |-> Len(emitting) + 1]
       IN  /\ calls' = call
           /\ emitting' = Append(emitting, out)
           /\ pending_outputs' = Append(pending_outputs, out)
    /\ outLeft' = outLeft - 1
    /\ UNCHANGED <<config_, algorithm_, running_, subscription_running_, message_queue_,
                   algorithm_mutex_, context_mutex_, queue_mutex_, pc, message,
                   messages_to_send, removed, inbound>>
    /\ UNCHANGED <<arrived, dropped, processed, published, initialized, overlooked,
                   algorithmAtStart, triggers>>
    /\ UNCHANGED <<regVars, tmVars, algVars, callVars>>

\* a scope's end that keeps context_mutex_
HookReturn_context_kept(t, next) ==
    /\ InHook(t)
    /\ pc' = [pc EXCEPT ![t] = next]
    /\ emitting' = <<>>
    /\ unlock_algorithm(t)
    /\ UNCHANGED context_mutex_

\* the hook returns and the scope's two locks are released
HookReturn(t, next) ==
    /\ InHook(t)
    /\ pc' = [pc EXCEPT ![t] = next]
    /\ emitting' = <<>>
    /\ unlock_algorithm(t)
    /\ context_mutex_' = NoThread

\* a drain that copies pending_outputs and leaves it as it is
moved_from_copied(list) == list

\* lines 493-494: pending_outputs after std::move and clear()
moved_from(list) == <<>>

\* send_pending_outputs, lines 490-495: move pending_outputs out under the
\* context lock
Drain(t, next) ==
    /\ pc[t] = "drain"
    /\ context_mutex_ = NoThread
    /\ messages_to_send' = [messages_to_send EXCEPT ![t] = pending_outputs]
    /\ pending_outputs' = moved_from(pending_outputs)
    /\ pc' = [pc EXCEPT ![t] = IF pending_outputs = <<>> THEN next ELSE "publish"]
    /\ UNCHANGED <<config_, algorithm_, running_, subscription_running_, message_queue_,
                   algorithm_mutex_, context_mutex_, queue_mutex_, message, removed, inbound>>
    /\ UNCHANGED <<envVars, regVars, tmVars, algVars, callVars>>

\* a loop over messages_to_send that runs from the back
send_index_reverse(list) == Len(list)

\* line 497: the range-for sends the messages front first
send_index(list) == 1

\* a sequence without its i-th element
RemoveAt(list, i) == [k \in 1..(Len(list) - 1) |-> IF k < i THEN list[k] ELSE list[k + 1]]

\* line 297: messages_sent_++ after publish has returned
sent_after_publish(n) == n + 1

\* send_pending_outputs, lines 497-499: send_to_l1 of the next local message
Publish(t, next) ==
    /\ pc[t] = "publish"
    /\ messages_to_send[t] # <<>>
    /\ LET i == send_index(messages_to_send[t])
       IN  /\ published' = Append(published, messages_to_send[t][i])
           /\ messages_to_send' = [messages_to_send EXCEPT ![t] = RemoveAt(@, i)]
    /\ messages_sent_' = sent_after_publish(messages_sent_)
    /\ pc' = [pc EXCEPT ![t] = IF Len(messages_to_send[t]) = 1 THEN next ELSE "publish"]
    /\ UNCHANGED <<config_, algorithm_, running_, subscription_running_, message_queue_,
                   algorithm_mutex_, context_mutex_, queue_mutex_, pending_outputs,
                   message, removed, inbound>>
    /\ UNCHANGED <<arrived, dropped, processed, calls, emitting, outLeft, initialized, overlooked,
                   algorithmAtStart, triggers>>
    /\ UNCHANGED <<regVars, tmVars, algVars, thrown, messages_processed_, threw, failed>>
    /\ UNCHANGED <<stratVars, pendingAtStop>>

\* send_to_l1, lines 295-302: publish throws; the catch logs, and the loop of
\* send_pending_outputs goes on with the next message
PublishFail(t, next) ==
    /\ pc[t] = "publish"
    /\ messages_to_send[t] # <<>>
    /\ LET i == send_index(messages_to_send[t])
       IN  /\ failed' = failed \cup {messages_to_send[t][i]}
           /\ messages_to_send' = [messages_to_send EXCEPT ![t] = RemoveAt(@, i)]
    /\ pc' = [pc EXCEPT ![t] = IF Len(messages_to_send[t]) = 1 THEN next ELSE "publish"]
    /\ UNCHANGED <<config_, algorithm_, running_, subscription_running_, message_queue_,
                   algorithm_mutex_, context_mutex_, queue_mutex_, pending_outputs,
                   message, removed, inbound>>
    /\ UNCHANGED <<envVars, regVars, tmVars, algVars>>
    /\ UNCHANGED <<thrown, messages_processed_, messages_sent_, threw>>
    /\ UNCHANGED <<stratVars, pendingAtStop>>

\* the second lock of a hook's scope, then the call itself (if (algorithm_));
\* without an algorithm the scope ends at once and the locks are released
EnterHook(t, from, hook, skip) ==
    /\ pc[t] = from
    /\ IF algorithm_ # NoAlgorithm
       THEN /\ lock_context(t)
            /\ pc' = [pc EXCEPT ![t] = hook]
            /\ UNCHANGED algorithm_mutex_
       ELSE /\ context_mutex_ = NoThread
            /\ unlock_algorithm(t)
            /\ pc' = [pc EXCEPT ![t] = skip]
            /\ UNCHANGED context_mutex_

\* ---- worker_thread_func
\* a worker that takes the newest message instead of the oldest
queue_back(queue) == queue[Len(queue)]

\* line 420: message_queue_.front()
queue_front(queue) == Head(queue)

\* lines 411-422: the loop test and queue_cv_.wait's predicate under queue_mutex_
WorkerWait(t) ==
    /\ pc[t] = "top"
    /\ queue_mutex_ = NoThread
    /\ IF ~running_
       THEN /\ pc' = [pc EXCEPT ![t] = "done"]
            /\ UNCHANGED <<message_queue_, message, queue_mutex_>>
       ELSE IF message_queue_ # <<>>
       THEN /\ message' = [message EXCEPT ![t] = queue_front(message_queue_)]
            /\ message_queue_' = Tail(message_queue_)
            /\ pc' = [pc EXCEPT ![t] = "got"]
            /\ UNCHANGED queue_mutex_
       ELSE /\ pc' = [pc EXCEPT ![t] = "predfalse"]
            /\ queue_mutex_' = t
            /\ UNCHANGED <<message_queue_, message>>
    /\ UNCHANGED <<config_, algorithm_, running_, subscription_running_,
                   algorithm_mutex_, context_mutex_, pending_outputs,
                   messages_to_send, removed, inbound>>
    /\ UNCHANGED <<envVars, regVars, tmVars, algVars, callVars>>

\* queue_cv_.wait: the predicate was false, release queue_mutex_ and block
WorkerBlock(t) ==
    /\ pc[t] = "predfalse"
    /\ pc' = [pc EXCEPT ![t] = "blocked"]
    /\ queue_mutex_' = NoThread
    /\ UNCHANGED <<config_, algorithm_, running_, subscription_running_, message_queue_,
                   algorithm_mutex_, context_mutex_, pending_outputs, message,
                   messages_to_send, removed, inbound>>
    /\ UNCHANGED <<envVars, regVars, tmVars, algVars, callVars>>

\* line 426
WorkerLockAlgorithm(t) ==
    /\ pc[t] = "got"
    /\ lock_shared(t)
    /\ pc' = [pc EXCEPT ![t] = "lock_context"]
    /\ UNCHANGED <<config_, algorithm_, running_, subscription_running_, message_queue_,
                   context_mutex_, queue_mutex_, pending_outputs, message,
                   messages_to_send, removed, inbound>>
    /\ UNCHANGED <<envVars, regVars, tmVars, algVars, callVars>>

\* lines 427-429
WorkerProcess(t) ==
    /\ EnterHook(t, "lock_context", "process_l1_message", "drain")
    /\ processed' = IF algorithm_ # NoAlgorithm THEN Append(processed, message[t])
                    ELSE processed
    /\ UNCHANGED <<config_, algorithm_, running_, subscription_running_, message_queue_,
                   queue_mutex_, pending_outputs, message, messages_to_send, removed, inbound>>
    /\ UNCHANGED <<arrived, dropped, calls, emitting, outLeft, published, initialized, overlooked,
                   algorithmAtStart, triggers>>
    /\ UNCHANGED <<regVars, tmVars, algVars, callVars>>

\* the frame of a hook's return
ReturnFrame ==
    /\ UNCHANGED <<config_, algorithm_, running_, subscription_running_, message_queue_,
                   queue_mutex_, pending_outputs, message, messages_to_send, removed, inbound>>
    /\ UNCHANGED <<arrived, dropped, processed, calls, outLeft, published, initialized, overlooked,
                   algorithmAtStart, triggers>>
    /\ UNCHANGED <<regVars, tmVars, algVars, callVars>>

\* a worker that never counts a message
processed_after_return_same(n) == n

\* line 430: messages_processed_++ after process_l1_message has returned
processed_after_return(n) == n + 1

\* what a hook's return or throw leaves alone besides the statistics
WorkerFrame ==
    /\ UNCHANGED <<config_, algorithm_, running_, subscription_running_, message_queue_,
                   queue_mutex_, pending_outputs, message, messages_to_send, removed, inbound>>
    /\ UNCHANGED <<arrived, dropped, processed, calls, outLeft, published, initialized, overlooked,
                   algorithmAtStart, triggers>>
    /\ UNCHANGED <<regVars, tmVars, algVars>>

\* lines 430-434: process_l1_message returns
WorkerReturn(t) ==
    /\ pc[t] = "process_l1_message"
    /\ HookReturn(t, "drain")
    /\ messages_processed_' = processed_after_return(messages_processed_)
    /\ WorkerFrame
    /\ UNCHANGED <<thrown, messages_sent_, threw, failed>>
    /\ UNCHANGED <<stratVars, pendingAtStop>>

\* lines 429-434: process_l1_message throws a std::exception; the two locks
\* are released as the scope unwinds, the catch logs, and the worker goes on
\* to send_pending_outputs
WorkerThrow(t) ==
    /\ pc[t] = "process_l1_message"
    /\ HookReturn(t, "drain")
    /\ threw' = threw \cup {message[t]}
    /\ WorkerFrame
    /\ UNCHANGED <<thrown, messages_processed_, messages_sent_, failed>>
    /\ UNCHANGED <<stratVars, pendingAtStop>>

\* ---- algorithm_thread_func
\* lines 442-445: the loop test and the algorithm lock
TickerLockAlgorithm ==
    /\ pc["ticker"] = "top"
    /\ IF ~running_
       THEN /\ pc' = [pc EXCEPT !["ticker"] = "done"]
            /\ UNCHANGED algorithm_mutex_
       ELSE /\ lock_shared("ticker")
            /\ pc' = [pc EXCEPT !["ticker"] = "lock_context"]
    /\ UNCHANGED <<config_, algorithm_, running_, subscription_running_, message_queue_,
                   context_mutex_, queue_mutex_, pending_outputs, message,
                   messages_to_send, removed, inbound>>
    /\ UNCHANGED <<envVars, regVars, tmVars, algVars, callVars>>

\* lines 446-448
TickerUpdate ==
    /\ EnterHook("ticker", "lock_context", "update", "drain")
    /\ UNCHANGED <<config_, algorithm_, running_, subscription_running_, message_queue_,
                   queue_mutex_, pending_outputs, message, messages_to_send, removed, inbound>>
    /\ UNCHANGED <<envVars, regVars, tmVars, algVars, callVars>>

\* lines 449-450: update returns
TickerReturn ==
    /\ pc["ticker"] = "update"
    /\ HookReturn("ticker", "drain")
    /\ ReturnFrame

\* ---- the subscription thread: handle_l1_message and enqueue_message
\* messages the bus delivers in the model
MaxMessages == 5

NoMessage == [id |-> 0, sender |-> "", payload |-> "none"]

PayloadCases == {"sensor_data", "node_status", "heartbeat"}

\* an enqueue that pushes without making room first
enqueue_no_pop(queue, m, size) == Append(queue, m)

\* lines 401-406: message_queue_ after enqueue_message
enqueue(queue, m, size) ==
    Append(IF Len(queue) >= size THEN Tail(queue) ELSE queue, m)

\* queue_cv_.notify_one(): the pc after one blocked worker, if any, is woken
NotifiedOne(p) ==
    IF \E w \in Workers : p[w] = "blocked"
    THEN {[p EXCEPT ![w] = "top"] : w \in {x \in Workers : p[x] = "blocked"}}
    ELSE {p}

\* queue_cv_.notify_all()
NotifiedAll(p) == [t \in DOMAIN p |-> IF p[t] = "blocked" THEN "top" ELSE p[t]]

\* a message without a sender field: sender().node_id() is the empty string
NoSender == ""

\* line 377: message.has_sender()
has_sender(sender) == sender # NoSender

\* a switch whose heartbeat case is missing
registry_case_status_only(payload) == payload = "node_status"

\* lines 382-388: the cases kNodeStatus and kHeartbeat of the switch
registry_case(payload) == payload \in {"node_status", "heartbeat"}

\* the bus delivers the next message to the subscription callback; lines
\* 362 and 377-379: register_node(message.sender())
SubscriptionReceive(cases, senders, limit) ==
    /\ pc["subscription"] = "top"
    /\ subscription_running_
    /\ arrived < limit
    /\ \E sender \in senders, payload \in cases, type \in NodeTypes :
           /\ inbound' = [id |-> arrived + 1, sender |-> sender, payload |-> payload]
           /\ IF has_sender(sender) THEN register_node(sender, type)
              ELSE UNCHANGED regVars
    /\ arrived' = arrived + 1
    /\ pc' = [pc EXCEPT !["subscription"] = "dispatch"]
    /\ UNCHANGED <<config_, algorithm_, running_, subscription_running_, message_queue_,
                   algorithm_mutex_, context_mutex_, queue_mutex_, pending_outputs,
                   message, messages_to_send, removed>>
    /\ UNCHANGED <<dropped, processed, calls, emitting, outLeft, published, initialized, overlooked,
                   algorithmAtStart, triggers>>
    /\ UNCHANGED <<tmVars, algVars, callVars>>

\* lines 383-388: node_status and heartbeat go to the registry
SubscriptionRegistry ==
    /\ pc["subscription"] = "dispatch"
    /\ registry_case(inbound.payload)
    /\ IF inbound.payload = "heartbeat"
       THEN update_node_heartbeat(inbound.sender)
       ELSE \E st \in NodeStatuses : update_node_status(inbound.sender, st)
    /\ inbound' = NoMessage
    /\ pc' = [pc EXCEPT !["subscription"] = "top"]
    /\ UNCHANGED <<config_, algorithm_, running_, subscription_running_, message_queue_,
                   algorithm_mutex_, context_mutex_, queue_mutex_, pending_outputs,
                   message, messages_to_send, removed>>
    /\ UNCHANGED <<envVars, tmVars, algVars, callVars>>

\* lines 389-392 and 398-408: every other message is enqueued
SubscriptionEnqueue ==
    /\ pc["subscription"] = "dispatch"
    /\ ~registry_case(inbound.payload)
    /\ queue_mutex_ = NoThread
    /\ message_queue_' = enqueue(message_queue_, inbound.id, config_.message_queue_size)
    /\ dropped' = IF Len(message_queue_) >= config_.message_queue_size
                  THEN dropped \cup {Head(message_queue_)} ELSE dropped
    /\ inbound' = NoMessage
    /\ pc' \in NotifiedOne([pc EXCEPT !["subscription"] = "top"])
    /\ UNCHANGED <<config_, algorithm_, running_, subscription_running_,
                   algorithm_mutex_, context_mutex_, queue_mutex_, pending_outputs,
                   message, messages_to_send, removed>>
    /\ UNCHANGED <<arrived, processed, calls, emitting, outLeft, published, initialized, overlooked,
                   algorithmAtStart, triggers>>
    /\ UNCHANGED <<regVars, tmVars, algVars, callVars>>

\* subscribe returns once the cancel signal is set
SubscriptionExit ==
    /\ pc["subscription"] = "top"
    /\ ~subscription_running_
    /\ pc' = [pc EXCEPT !["subscription"] = "done"]
    /\ UNCHANGED <<config_, algorithm_, running_, subscription_running_, message_queue_,
                   algorithm_mutex_, context_mutex_, queue_mutex_, pending_outputs,
                   message, messages_to_send, removed, inbound>>
    /\ UNCHANGED <<envVars, regVars, tmVars, algVars, callVars>>

\* ---- node_monitor_thread_func
\* the orders in which an unordered_map's iteration may visit a set of ids
Orders(ids) ==
    {q \in UNION {[1..n -> ids] : n \in {Cardinality(ids)}} :
        \A i, j \in DOMAIN q : i # j => q[i] # q[j]}

\* lines 469-471: the loop test and the sweep
MonitorSweep ==
    /\ pc["monitor"] = "top"
    /\ IF ~running_
       THEN /\ pc' = [pc EXCEPT !["monitor"] = "done"]
            /\ UNCHANGED <<regVars, removed, overlooked>>
       ELSE /\ check_and_remove_timed_out_nodes(NodeTimeout)
            /\ removed' \in Orders(regOp'.ids)
            /\ overlooked' = {id \in DOMAIN last_seen_' :
                                  now - last_seen_'[id] >= NodeTimeout}
            /\ pc' = [pc EXCEPT !["monitor"] = "for"]
    /\ UNCHANGED <<config_, algorithm_, running_, subscription_running_, message_queue_,
                   algorithm_mutex_, context_mutex_, queue_mutex_, pending_outputs,
                   message, messages_to_send, inbound>>
    /\ UNCHANGED <<arrived, dropped, processed, calls, emitting, outLeft, published,
                   initialized, algorithmAtStart, triggers>>
    /\ UNCHANGED <<tmVars, algVars, callVars>>

\* lines 474-477: the next removed node, or the sleep after the last one
MonitorLockAlgorithm ==
    /\ pc["monitor"] = "for"
    /\ IF removed = <<>>
       THEN /\ pc' = [pc EXCEPT !["monitor"] = "top"]
            /\ UNCHANGED algorithm_mutex_
       ELSE /\ lock_shared("monitor")
            /\ pc' = [pc EXCEPT !["monitor"] = "lock_context"]
    /\ UNCHANGED <<config_, algorithm_, running_, subscription_running_, message_queue_,
                   context_mutex_, queue_mutex_, pending_outputs, message,
                   messages_to_send, removed, inbound>>
    /\ UNCHANGED <<envVars, regVars, tmVars, algVars, callVars>>

\* lines 478-480: handle_trigger(algorithm_context_, "node_timeout", node_id)
MonitorTrigger ==
    /\ EnterHook("monitor", "lock_context", "handle_trigger", "for")
    /\ removed' = Tail(removed)
    /\ triggers' = IF algorithm_ # NoAlgorithm
                   THEN [triggers EXCEPT ![Head(removed)] = @ + 1] ELSE triggers
    /\ UNCHANGED <<config_, algorithm_, running_, subscription_running_, message_queue_,
                   queue_mutex_, pending_outputs, message, messages_to_send, inbound>>
    /\ UNCHANGED <<arrived, dropped, processed, calls, emitting, outLeft, published,
                   initialized, overlooked, algorithmAtStart>>
    /\ UNCHANGED <<regVars, tmVars, algVars, callVars>>

\* lines 481-482: handle_trigger returns
MonitorReturn ==
    /\ pc["monitor"] = "handle_trigger"
    /\ HookReturn("monitor", "for")
    /\ ReturnFrame

\* ---- heartbeat_thread_func, lines 462-465
HeartbeatSend ==
    /\ pc["heartbeat"] = "top"
    /\ pc' = [pc EXCEPT !["heartbeat"] = IF running_ THEN "top" ELSE "done"]
    /\ UNCHANGED <<config_, algorithm_, running_, subscription_running_, message_queue_,
                   algorithm_mutex_, context_mutex_, queue_mutex_, pending_outputs,
                   message, messages_to_send, removed, inbound>>
    /\ UNCHANGED <<envVars, regVars, tmVars, algVars, callVars>>

\* ---- set_algorithm and trigger_algorithm_event, called by the "api" thread
\* algorithm instances 1..MaxAlgorithms are installed in the model
MaxAlgorithms == 2

\* lines 196-198: the running_ test of set_algorithm
SetAlgorithmCheck ==
    /\ pc["api"] = "ready"
    /\ algorithm_ < MaxAlgorithms
    /\ pc' = [pc EXCEPT !["api"] = IF running_ THEN "ready" ELSE "set_algorithm"]
    /\ UNCHANGED <<config_, algorithm_, running_, subscription_running_, message_queue_,
                   algorithm_mutex_, context_mutex_, queue_mutex_, pending_outputs,
                   message, messages_to_send, removed, inbound>>
    /\ UNCHANGED <<envVars, regVars, tmVars, algVars, callVars>>

\* lines 199-200: install the new instance under the exclusive lock
SetAlgorithmInstall ==
    /\ pc["api"] = "set_algorithm"
    /\ algorithm_mutex_ = FreeSharedMutex
    /\ algorithm_' = algorithm_ + 1
    /\ pc' = [pc EXCEPT !["api"] = "ready"]
    /\ UNCHANGED <<config_, running_, subscription_running_, message_queue_,
                   algorithm_mutex_, context_mutex_, queue_mutex_, pending_outputs,
                   message, messages_to_send, removed, inbound>>
    /\ UNCHANGED <<envVars, regVars, tmVars, algVars, callVars>>

\* line 347
TriggerLockAlgorithm ==
    /\ pc["api"] = "ready"
    /\ lock_shared("api")
    /\ pc' = [pc EXCEPT !["api"] = "lock_context"]
    /\ UNCHANGED <<config_, algorithm_, running_, subscription_running_, message_queue_,
                   context_mutex_, queue_mutex_, pending_outputs, message,
                   messages_to_send, removed, inbound>>
    /\ UNCHANGED <<envVars, regVars, tmVars, algVars, callVars>>

\* lines 348-350
TriggerEvent ==
    /\ EnterHook("api", "lock_context", "handle_trigger", "ready")
    /\ UNCHANGED <<config_, algorithm_, running_, subscription_running_, message_queue_,
                   queue_mutex_, pending_outputs, message, messages_to_send, removed,
                   inbound>>
    /\ UNCHANGED <<envVars, regVars, tmVars, algVars, callVars>>

\* lines 351-352: handle_trigger returns
TriggerReturn ==
    /\ pc["api"] = "handle_trigger"
    /\ HookReturn("api", "ready")
    /\ ReturnFrame

\* ---- start() and stop(), called by the "ctl" thread
\* a start() that creates its threads before it initializes the algorithm
pc_after_start_check_spawning(p, cfg) ==
    [t \in DOMAIN p |-> IF t \in SpawnedTasks(cfg) THEN "top"
                        ELSE IF t = "ctl" THEN "start_lock" ELSE p[t]]

\* lines 215-219: no thread is created before initialize
pc_after_start_check(p, cfg) == [p EXCEPT !["ctl"] = "start_lock"]

\* lines 207-215: start() with an algorithm set and not yet running
StartCheck ==
    /\ pc["ctl"] = "ready"
    /\ ~running_
    /\ algorithm_ # NoAlgorithm
    /\ running_' = TRUE
    /\ pc' = pc_after_start_check(pc, config_)
    /\ UNCHANGED <<config_, algorithm_, subscription_running_, message_queue_,
                   algorithm_mutex_, context_mutex_, queue_mutex_, pending_outputs,
                   message, messages_to_send, removed, inbound>>
    /\ UNCHANGED <<envVars, regVars, tmVars, algVars, callVars>>

\* a start() that sets running_ before it tests algorithm_
running_after_throw_set(r) == TRUE

\* lines 211-215: the throw of line 212 comes before running_ = true
running_after_throw(r) == r

\* lines 207-213: start() without an algorithm throws std::runtime_error
StartThrow ==
    /\ pc["ctl"] = "ready"
    /\ ~running_
    /\ algorithm_ = NoAlgorithm
    /\ running_' = running_after_throw(running_)
    /\ thrown' = 1
    /\ UNCHANGED statVars
    /\ UNCHANGED <<stratVars, pendingAtStop>>
    /\ UNCHANGED <<config_, algorithm_, subscription_running_, message_queue_,
                   algorithm_mutex_, context_mutex_, queue_mutex_, pending_outputs, pc,
                   message, messages_to_send, removed, inbound>>
    /\ UNCHANGED <<envVars, regVars, tmVars, algVars>>

\* line 219
StartLockAlgorithm ==
    /\ pc["ctl"] = "start_lock"
    /\ lock_unique("ctl")
    /\ pc' = [pc EXCEPT !["ctl"] = "start_lock_context"]
    /\ UNCHANGED <<config_, algorithm_, running_, subscription_running_, message_queue_,
                   context_mutex_, queue_mutex_, pending_outputs, message,
                   messages_to_send, removed, inbound>>
    /\ UNCHANGED <<envVars, regVars, tmVars, algVars, callVars>>

\* lines 220-221: algorithm_->initialize(algorithm_context_)
StartInitialize ==
    /\ pc["ctl"] = "start_lock_context"
    /\ lock_context("ctl")
    /\ pc' = [pc EXCEPT !["ctl"] = "initialize"]
    /\ algorithmAtStart' = algorithm_
    /\ UNCHANGED <<config_, algorithm_, running_, subscription_running_, message_queue_,
                   algorithm_mutex_, queue_mutex_, pending_outputs, message,
                   messages_to_send, removed, inbound>>
    /\ UNCHANGED <<arrived, dropped, processed, calls, emitting, outLeft, published,
                   initialized, overlooked, triggers>>
    /\ UNCHANGED <<regVars, tmVars, algVars, callVars>>

\* line 222: initialize returns
StartInitialized ==
    /\ pc["ctl"] = "initialize"
    /\ HookReturn("ctl", "spawn")
    /\ initialized' = TRUE
    /\ UNCHANGED <<config_, algorithm_, running_, subscription_running_, message_queue_,
                   queue_mutex_, pending_outputs, message, messages_to_send, removed,
                   inbound>>
    /\ UNCHANGED <<arrived, dropped, processed, calls, outLeft, published,
                   algorithmAtStart, triggers, overlooked>>
    /\ UNCHANGED <<regVars, tmVars, algVars, callVars>>

\* lines 224-239: the threads start() creates
pc_after_spawn(p, cfg) ==
    [t \in DOMAIN p |-> IF t \in SpawnedTasks(cfg) /\ p[t] = "off" THEN "top"
                        ELSE IF t = "ctl" THEN "ready" ELSE p[t]]

StartSpawn ==
    /\ pc["ctl"] = "spawn"
    /\ pc' = pc_after_spawn(pc, config_)
    /\ subscription_running_' = TRUE
    /\ UNCHANGED <<config_, algorithm_, running_, message_queue_, algorithm_mutex_,
                   context_mutex_, queue_mutex_, pending_outputs, message,
                   messages_to_send, removed, inbound>>
    /\ UNCHANGED <<envVars, regVars, tmVars, algVars, callVars>>

\* lines 248-254: stop() of a running manager
StopSignal ==
    /\ pc["ctl"] = "ready"
    /\ running_
    /\ running_' = FALSE
    /\ subscription_running_' = FALSE
    /\ pc' = NotifiedAll([pc EXCEPT !["ctl"] = "join"])
    /\ pendingAtStop' = pendingAtStop \cup SeqToSet(message_queue_)
    /\ UNCHANGED <<config_, algorithm_, message_queue_, algorithm_mutex_,
                   context_mutex_, queue_mutex_, pending_outputs, message,
                   messages_to_send, removed, inbound>>
    /\ UNCHANGED <<envVars, regVars, tmVars, algVars, thrown, statVars, stratVars>>

\* a stop() that does not wait for the ticker thread
joined_without_ticker(p, cfg) ==
    \A t \in SpawnedTasks(cfg) \ {"ticker"} : p[t] = "done"

\* lines 257-277: every join has returned
joined(p, cfg) == \A t \in SpawnedTasks(cfg) : p[t] = "done"

StopJoin ==
    /\ pc["ctl"] = "join"
    /\ joined(pc, config_)
    /\ pc' = [t \in Threads |-> IF t = "ctl" THEN "stop_lock"
                                ELSE IF pc[t] = "done" THEN "off" ELSE pc[t]]
    /\ UNCHANGED <<config_, algorithm_, running_, subscription_running_, message_queue_,
                   algorithm_mutex_, context_mutex_, queue_mutex_, pending_outputs,
                   message, messages_to_send, removed, inbound>>
    /\ UNCHANGED <<envVars, regVars, tmVars, algVars, callVars>>

\* line 281
StopLockAlgorithm ==
    /\ pc["ctl"] = "stop_lock"
    /\ lock_unique("ctl")
    /\ pc' = [pc EXCEPT !["ctl"] = "stop_lock_context"]
    /\ UNCHANGED <<config_, algorithm_, running_, subscription_running_, message_queue_,
                   context_mutex_, queue_mutex_, pending_outputs, message,
                   messages_to_send, removed, inbound>>
    /\ UNCHANGED <<envVars, regVars, tmVars, algVars, callVars>>

\* lines 282-284: algorithm_->shutdown(algorithm_context_)
StopShutdown ==
    /\ EnterHook("ctl", "stop_lock_context", "shutdown", "ready")
    /\ initialized' = FALSE
    /\ UNCHANGED <<config_, algorithm_, running_, subscription_running_, message_queue_,
                   queue_mutex_, pending_outputs, message, messages_to_send, removed,
                   inbound>>
    /\ UNCHANGED <<arrived, dropped, processed, calls, emitting, outLeft, published,
                   algorithmAtStart, triggers, overlooked>>
    /\ UNCHANGED <<regVars, tmVars, algVars, callVars>>

\* lines 285-288: shutdown returns
StopReturn ==
    /\ pc["ctl"] = "shutdown"
    /\ HookReturn("ctl", "ready")
    /\ ReturnFrame

(***************************************************************************)
(* Specifications                                                          *)
(***************************************************************************)
\* the manager after its constructor, for a configuration and an algorithm
\* that emits at most outs outputs
MgrInit(cfg, outs) ==
    /\ config_ = cfg
    /\ algorithm_ = NoAlgorithm
    /\ running_ = FALSE
    /\ subscription_running_ = FALSE
    /\ message_queue_ = <<>>
    /\ algorithm_mutex_ = FreeSharedMutex
    /\ context_mutex_ = NoThread
    /\ queue_mutex_ = NoThread
    /\ pending_outputs = <<>>
    /\ pc = [t \in Threads |-> IF t \in {"ctl", "api"} THEN "ready" ELSE "off"]
    /\ message = [w \in Workers |-> 0]
    /\ messages_to_send = [t \in Workers \cup {"ticker"} |-> <<>>]
    /\ removed = <<>>
    /\ inbound = NoMessage
    /\ arrived = 0
    /\ dropped = {}
    /\ processed = <<>>
    /\ calls = 0
    /\ emitting = <<>>
    /\ outLeft = outs
    /\ published = <<>>
    /\ initialized = FALSE
    /\ overlooked = {}
    /\ algorithmAtStart = NoAlgorithm
    /\ triggers = [n \in NodeIds |-> 0]

DefaultConfig == [worker_threads |-> MaxWorkers, message_queue_size |-> MessageQueueSize]

\* ---- StateManager (algorithm_framework.h) and TaskStateMachine (task_manager.h)
\* an empty std::string as a state name; a null std::shared_ptr<State>
NoState == ""

NoSmOp == [machine |-> "none", trigger |-> "", from |-> "", ret |-> FALSE, fired |-> 0]

NoAlgOp == [op |-> "none", from |-> ""]

\* a StateManager after its constructor
NewStateManager == [states_ |-> EmptyMap, transitions_ |-> <<>>, initial_state_ |-> NoState]

\* a TaskStateMachine after its constructor
NewTaskStateMachine ==
    [states_ |-> EmptyMap, transitions_ |-> <<>>, initial_state_ |-> NoState,
     current_state_ |-> NoState]

\* the algorithm, its context and the per-task state machine after construction
AlgInit ==
    /\ state_manager_ = NewStateManager
    /\ task_state_machine_ = NewTaskStateMachine
    /\ current_state_name = NoState
    /\ current_state = NoState
    /\ algorithm_data = EmptyMap
    /\ last_status_time_ = NoTime
    /\ effects = <<>>
    /\ smOp = NoSmOp
    /\ algOp = NoAlgOp
    /\ updated = FALSE
    /\ message_history = EmptyMap

\* a null Target*
NullTarget == [target_id |-> "", confidence |-> 0]

StatInit ==
    /\ thrown = 0
    /\ messages_processed_ = 0
    /\ messages_sent_ = 0
    /\ threw = {}
    /\ failed = {}
    /\ pendingAtStop = {}

CallInit ==
    /\ StatInit
    /\ target_list = <<>>
    /\ given = <<>>
    /\ prioritized = <<>>
    /\ best = NullTarget
    /\ stratOp = "none"

Init == RegInit /\ TmInit /\ MgrInit(DefaultConfig, 0) /\ AlgInit /\ CallInit

\* ---- the Node Registry under arbitrary callers
RegisterNode ==
    /\ \E id \in NodeIds, ty \in NodeTypes : register_node(id, ty)
    /\ UNCHANGED <<tmVars, mgrVars, envVars, algVars, callVars>>
UpdateNodeHeartbeat ==
    /\ \E id \in NodeIds : update_node_heartbeat(id)
    /\ UNCHANGED <<tmVars, mgrVars, envVars, algVars, callVars>>
UpdateNodeStatus ==
    /\ \E id \in NodeIds, st \in NodeStatuses : update_node_status(id, st)
    /\ UNCHANGED <<tmVars, mgrVars, envVars, algVars, callVars>>
RemoveNode ==
    /\ \E id \in NodeIds : remove_node(id)
    /\ UNCHANGED <<tmVars, mgrVars, envVars, algVars, callVars>>
SweepAndRemove ==
    /\ check_and_remove_timed_out_nodes(NodeTimeout)
    /\ UNCHANGED <<tmVars, mgrVars, envVars, algVars, callVars>>
GetActiveNodes ==
    /\ ObserveActive(NodeTimeout)
    /\ UNCHANGED <<tmVars, mgrVars, envVars, algVars, callVars>>
ClockTick ==
    /\ Tick
    /\ UNCHANGED <<tmVars, mgrVars, envVars, algVars, callVars>>

RegNext ==
    \/ RegisterNode
    \/ UpdateNodeHeartbeat
    \/ UpdateNodeStatus
    \/ RemoveNode
    \/ SweepAndRemove
    \/ GetActiveNodes
    \/ ClockTick

SpecRegistry == Init /\ [][RegNext]_vars

\* ---- the Task Manager under arbitrary callers
CreateTask ==
    /\ \E target_id \in TargetIds : create_task(target_id)
    /\ UNCHANGED <<regVars, mgrVars, envVars, algVars, callVars>>
AssignTaskToDevice ==
    /\ \E task_id \in TaskIds, device_id \in DeviceIds :
           assign_task_to_device(task_id, device_id)
    /\ UNCHANGED <<regVars, mgrVars, envVars, algVars, callVars>>
RemoveTask ==
    /\ \E task_id \in TaskIds : remove_task(task_id)
    /\ UNCHANGED <<regVars, mgrVars, envVars, algVars, callVars>>
ClearAll ==
    /\ clear_all
    /\ UNCHANGED <<regVars, mgrVars, envVars, algVars, callVars>>

\* get_task(task_id)->set_status(status) of a stored task
TaskSetStatus(task_id, status) ==
    /\ tasks_' = MapPut(tasks_, task_id, set_status(tasks_[task_id], status))
    /\ UNCHANGED tmOp

SetStatus ==
    /\ \E task_id \in DOMAIN tasks_, status \in Statuses : TaskSetStatus(task_id, status)
    /\ UNCHANGED <<target_to_tasks_, device_to_tasks_, target_primary_device_,
                   next_task_id_, issued, last_cleanup_time_>>
    /\ UNCHANGED <<regVars, mgrVars, envVars, algVars, callVars>>

\* the percentages callers pass, in tenths of a percent: below the range,
\* inside it and above it
ProgressInputs == {-100, 255, 1500}

\* get_task(task_id)->set_progress(percentage) of a stored task
TaskSetProgress(task_id, percentage) ==
    /\ tasks_' = MapPut(tasks_, task_id, set_progress(tasks_[task_id], percentage))
    /\ UNCHANGED tmOp

SetProgress ==
    /\ \E task_id \in DOMAIN tasks_, percentage \in ProgressInputs :
           TaskSetProgress(task_id, percentage)
    /\ UNCHANGED <<target_to_tasks_, device_to_tasks_, target_primary_device_,
                   next_task_id_, issued, last_cleanup_time_>>
    /\ UNCHANGED <<regVars, mgrVars, envVars, algVars, callVars>>

\* the tasks whose status and progress are followed
MaxLifecycleTasks == 1

LifecycleCreate == next_task_id_ <= MaxLifecycleTasks /\ CreateTask

\* assign_task_to_device of a stored task
LifecycleAssign ==
    /\ \E task_id \in DOMAIN tasks_, device_id \in DeviceIds :
           assign_task_to_device(task_id, device_id)
    /\ UNCHANGED <<regVars, mgrVars, envVars, algVars, callVars>>

LifecycleNext ==
    \/ LifecycleCreate
    \/ LifecycleAssign
    \/ SetStatus
    \/ SetProgress

\* tasks under create_task, assign_task_to_device and the setters of Task
SpecLifecycle == Init /\ [][LifecycleNext]_vars

TmNext ==
    \/ CreateTask
    \/ AssignTaskToDevice
    \/ RemoveTask
    \/ ClearAll

SpecTasks == Init /\ [][TmNext]_vars

\* ---- the manager's lifecycle: start, stop, set_algorithm and all threads
\* the bus delivers sensor data of node A in this specification
LifeMessages == 1

Worker ==
    \E w \in Workers :
        \/ WorkerWait(w)
        \/ WorkerBlock(w)
        \/ WorkerLockAlgorithm(w)
        \/ WorkerProcess(w)
        \/ WorkerReturn(w)
        \/ Drain(w, "top")

Ticker ==
    \/ TickerLockAlgorithm
    \/ TickerUpdate
    \/ TickerReturn
    \/ Drain("ticker", "top")

Monitor ==
    \/ MonitorSweep
    \/ MonitorLockAlgorithm
    \/ MonitorTrigger
    \/ MonitorReturn

Subscription ==
    \/ SubscriptionReceive({"sensor_data"}, {"A"}, LifeMessages)
    \/ SubscriptionEnqueue
    \/ SubscriptionExit

Api ==
    \/ SetAlgorithmCheck
    \/ SetAlgorithmInstall
    \/ TriggerLockAlgorithm
    \/ TriggerEvent
    \/ TriggerReturn

Ctl ==
    \/ StartCheck
    \/ StartLockAlgorithm
    \/ StartInitialize
    \/ StartInitialized
    \/ StartSpawn
    \/ StopSignal
    \/ StopJoin
    \/ StopLockAlgorithm
    \/ StopShutdown
    \/ StopReturn

Clock == Tick /\ UNCHANGED <<tmVars, mgrVars, envVars, algVars, callVars>>

MgrNext ==
    \/ Worker
    \/ Ticker
    \/ Monitor
    \/ HeartbeatSend
    \/ Subscription
    \/ Api
    \/ Ctl
    \/ Clock

SpecMgr == Init /\ [][MgrNext]_vars

\* C3: at no time are two threads inside hooks of the algorithm.
HookMutualExclusion ==
    Cardinality({t \in Threads : InHook(t)}) <= 1

\* a thread waits for the context lock while another is inside a hook
HookContentionWitness ==
    \E t, u \in Threads :
        /\ t # u
        /\ InHook(t)
        /\ pc[u] = "lock_context"
        /\ InHook("ctl") \/ InHook("api") \/ InHook("monitor")

\* C9: a thread start() created is inside a hook only after initialize has
\* returned and before shutdown begins, and initialize and shutdown run only
\* while none of those threads exists.
HookOrdering ==
    /\ \A t \in Tasks : InHook(t) => initialized
    /\ pc["ctl"] \in {"initialize", "shutdown"} => \A t \in Tasks : pc[t] = "off"

\* shutdown runs after the workers processed a message and all threads ended
HookOrderingWitness ==
    /\ pc["ctl"] = "shutdown"
    /\ processed # <<>>
    /\ triggers["A"] > 0

\* C10: while threads of the manager exist the installed algorithm is the one
\* start() initialized: set_algorithm does not replace it.
AlgorithmFixedWhileRunning ==
    (\E t \in Tasks : pc[t] # "off") => algorithm_ = algorithmAtStart

\* ---- the inbound queue with one worker (worker_threads = 1): the
\* subscription thread enqueues sensor data, the worker processes it; the
\* ticker, the heartbeat and the monitor never touch message_queue_
OneWorkerConfig == [worker_threads |-> 1, message_queue_size |-> MessageQueueSize]

QueueInit == RegInit /\ TmInit /\ MgrInit(OneWorkerConfig, 0) /\ AlgInit /\ CallInit

QueueApi ==
    \/ SetAlgorithmCheck
    \/ SetAlgorithmInstall

QueueStart ==
    \/ StartCheck
    \/ StartLockAlgorithm
    \/ StartInitialize
    \/ StartInitialized
    \/ StartSpawn

QueueSubscription ==
    \/ SubscriptionReceive({"sensor_data"}, {"A"}, MaxMessages)
    \/ SubscriptionEnqueue

QueueWorker ==
    \/ WorkerWait("w1")
    \/ WorkerBlock("w1")
    \/ WorkerLockAlgorithm("w1")
    \/ WorkerProcess("w1")
    \/ WorkerReturn("w1")
    \/ Drain("w1", "top")

QueueNext ==
    \/ QueueApi
    \/ QueueStart
    \/ QueueSubscription
    \/ QueueWorker

SpecQueue == QueueInit /\ [][QueueNext]_vars

\* number of messages enqueue_message has been called with
Enqueued == IF inbound = NoMessage THEN arrived ELSE arrived - 1

\* the message a worker has taken from the queue and not yet passed on
InFlight(w) == IF pc[w] \in {"got", "lock_context"} THEN <<message[w]>> ELSE <<>>

\* the ids 1..n outside a set, in ascending order
RECURSIVE Kept(_, _)
Kept(n, out) ==
    IF n = 0 THEN <<>>
    ELSE IF n \in out THEN Kept(n - 1, out) ELSE Append(Kept(n - 1, out), n)

\* C6: the queue never holds more than message_queue_size messages, and it
\* holds the most recently enqueued messages in arrival order: an enqueue on
\* a full queue drops exactly the front.
QueueDiscipline ==
    /\ Len(message_queue_) <= config_.message_queue_size
    /\ \A i \in DOMAIN message_queue_ :
           message_queue_[i] = Enqueued - Len(message_queue_) + i
    /\ \A d \in dropped : \A i \in DOMAIN message_queue_ : d < message_queue_[i]
    /\ Cardinality(dropped) + Len(processed) + Len(InFlight("w1")) + Len(message_queue_)
           = Enqueued

\* the queue is full after an enqueue dropped the oldest message
QueueOverflowWitness ==
    /\ Len(message_queue_) = config_.message_queue_size
    /\ dropped = {1}
    /\ processed = <<>>
    /\ message_queue_[1] = 2

\* C7: with one worker, the messages passed to process_l1_message, then the
\* one the worker holds, then the queue, are the enqueued messages in arrival
\* order without the ones an overflow dropped.
SingleWorkerFifo ==
    processed \o InFlight("w1") \o message_queue_ = Kept(Enqueued, dropped)

\* all messages were enqueued before the worker ran: the first ones were
\* dropped and the worker processed the last message_queue_size, in order
SingleWorkerFifoWitness ==
    /\ Enqueued = MaxMessages
    /\ dropped = 1..(MaxMessages - config_.message_queue_size)
    /\ Len(processed) = config_.message_queue_size
    /\ \A i \in DOMAIN processed :
           processed[i] = MaxMessages - config_.message_queue_size + i

\* ---- outputs: two workers and the ticker drain pending_outputs while the
\* hooks of the workers, the ticker and trigger_algorithm_event append to it
\* outputs the algorithm emits in this specification
MaxOutputs == 3
\* messages the bus delivers in this specification
OutMessages == 1

OutInit == RegInit /\ TmInit /\ MgrInit(DefaultConfig, MaxOutputs) /\ AlgInit /\ CallInit

OutApi ==
    \/ SetAlgorithmCheck
    \/ SetAlgorithmInstall
    \/ TriggerLockAlgorithm
    \/ TriggerEvent
    \/ TriggerReturn

OutStart ==
    \/ StartCheck
    \/ StartLockAlgorithm
    \/ StartInitialize
    \/ StartInitialized
    \/ StartSpawn

OutSubscription ==
    \/ SubscriptionReceive({"sensor_data"}, {"A"}, OutMessages)
    \/ SubscriptionEnqueue

OutWorker ==
    \E w \in Workers :
        \/ WorkerWait(w)
        \/ WorkerBlock(w)
        \/ WorkerLockAlgorithm(w)
        \/ WorkerProcess(w)
        \/ WorkerReturn(w)
        \/ Drain(w, "top")
        \/ Publish(w, "top")

OutTicker ==
    \/ TickerLockAlgorithm
    \/ TickerUpdate
    \/ TickerReturn
    \/ Drain("ticker", "top")
    \/ Publish("ticker", "top")

OutEmit == \E t \in Workers \cup {"ticker", "api"} : HookEmit(t)

OutNext ==
    \/ OutApi
    \/ OutStart
    \/ OutSubscription
    \/ OutWorker
    \/ OutTicker
    \/ OutEmit

SpecOut == OutInit /\ [][OutNext]_vars

\* ---- statistics: the workers and the ticker of SpecOut, whose calls of
\* process_l1_message and publish may each end in an exception
StatsFail ==
    \/ \E w \in Workers : WorkerThrow(w)
    \/ \E t \in Workers \cup {"ticker"} : PublishFail(t, "top")

\* outputs the algorithm emits in this specification
StatsOutputs == 2

StatsInit == RegInit /\ TmInit /\ MgrInit(DefaultConfig, StatsOutputs) /\ AlgInit /\ CallInit

StatsEmit == \E t \in Workers \cup {"ticker"} : HookEmit(t)

StatsNext ==
    \/ SetAlgorithmCheck
    \/ SetAlgorithmInstall
    \/ OutStart
    \/ OutSubscription
    \/ OutWorker
    \/ OutTicker
    \/ StatsEmit
    \/ StatsFail

SpecStats == StatsInit /\ [][StatsNext]_vars

\* C8: the outputs of one hook call are published in the order the call
\* appended them, each after all the call's earlier ones, and none of them
\* is moved out of the context or published before the call has returned.
OutputOrder ==
    /\ \A j \in DOMAIN published :
           /\ \A i \in DOMAIN published :
                  (i < j /\ published[i].call = published[j].call)
                      => published[i].seq < published[j].seq
           /\ published[j].seq > 1 =>
                  \E i \in 1..(j - 1) :
                      /\ published[i].call = published[j].call
                      /\ published[i].seq = published[j].seq - 1
    /\ emitting # <<>> =>
           /\ \A j \in DOMAIN published : published[j].call # calls
           /\ \A t \in DOMAIN messages_to_send :
                  \A k \in DOMAIN messages_to_send[t] : messages_to_send[t][k].call # calls

\* two outputs of one call were published while another thread published an
\* output of another call between them
OutputOrderWitness ==
    /\ Len(published) = 3
    /\ published[1].call = published[3].call
    /\ published[2].call # published[1].call

\* ---- node eviction (scenario S3): node B sends one message and stays
\* silent, node A is heard again before its silence reaches node_timeout, and
\* the monitor sweeps at arbitrary times
EvictInit == RegInit /\ TmInit /\ MgrInit(DefaultConfig, 0) /\ AlgInit /\ CallInit

\* B's only message is its first one
EvictSenders ==
    IF "B" \in DOMAIN last_seen_ \/ reported["B"] > 0 THEN {"A"} ELSE {"A", "B"}

EvictApi ==
    \/ SetAlgorithmCheck
    \/ SetAlgorithmInstall

EvictStart ==
    \/ StartCheck
    \/ StartLockAlgorithm
    \/ StartInitialize
    \/ StartInitialized
    \/ StartSpawn

EvictSubscription ==
    \/ SubscriptionReceive({"heartbeat"}, EvictSenders, MaxMessages)
    \/ SubscriptionRegistry

EvictTicker ==
    \/ TickerLockAlgorithm
    \/ TickerUpdate
    \/ TickerReturn
    \/ Drain("ticker", "top")

EvictMonitor ==
    \/ MonitorSweep
    \/ MonitorLockAlgorithm
    \/ MonitorTrigger
    \/ MonitorReturn

\* time passes only while A's silence stays below node_timeout, and between
\* messages: the callback of one message (lines 377-388) takes less than a tick
EvictClock ==
    /\ "A" \in DOMAIN last_seen_ => (now + 1) - last_seen_["A"] < NodeTimeout
    /\ pc["subscription"] # "dispatch"
    /\ Tick
    /\ UNCHANGED <<tmVars, mgrVars, envVars, algVars, callVars>>

EvictNext ==
    \/ EvictApi
    \/ EvictStart
    \/ EvictSubscription
    \/ EvictTicker
    \/ EvictMonitor
    \/ EvictClock

SpecEvict == EvictInit /\ [][EvictNext]_vars

\* C5: the silent node B is in the result of at most one sweep, and of one
\* as soon as a sweep runs when its silence has reached node_timeout; the
\* algorithm gets handle_trigger("node_timeout", B) once for it, by the end of
\* that sweep's loop; the heartbeating node A is never evicted, gets no
\* trigger and stays in get_active_nodes(node_timeout).
EvictedExactlyOnce ==
    /\ reported["B"] <= 1
    /\ "B" \notin overlooked
    /\ triggers["B"] <= reported["B"]
    /\ (pc["monitor"] = "top" /\ removed = <<>>) => triggers["B"] = reported["B"]
    /\ \A i \in DOMAIN removed : removed[i] = "B"
    /\ reported["A"] = 0
    /\ triggers["A"] = 0
    /\ "A" \in DOMAIN last_seen_ =>
           "A" \in get_active_nodes(last_seen_, now, NodeTimeout)

\* B was evicted and reported to the algorithm, A is active, and a later sweep
\* returned nothing
EvictedExactlyOnceWitness ==
    /\ reported["B"] = 1
    /\ triggers["B"] = 1
    /\ regOp.op = "sweep"
    /\ regOp.ids = {}
    /\ "A" \in get_active_nodes(last_seen_, now, NodeTimeout)
    /\ pc["monitor"] = "for"

\* ---- start() without an algorithm, then set_algorithm() and start() again
StartInit == RegInit /\ TmInit /\ MgrInit(DefaultConfig, 0) /\ AlgInit /\ CallInit

StartApi ==
    \/ SetAlgorithmCheck
    \/ SetAlgorithmInstall

StartCtl ==
    \/ StartThrow
    \/ StartCheck
    \/ StartLockAlgorithm
    \/ StartInitialize
    \/ StartInitialized
    \/ StartSpawn

StartWorker ==
    \E w \in Workers :
        \/ WorkerWait(w)
        \/ WorkerBlock(w)

StartTicker ==
    \/ TickerLockAlgorithm
    \/ TickerUpdate
    \/ TickerReturn
    \/ Drain("ticker", "top")

StartMonitor ==
    \/ MonitorSweep
    \/ MonitorLockAlgorithm

StartNext ==
    \/ StartApi
    \/ StartCtl
    \/ StartWorker
    \/ StartTicker
    \/ StartMonitor
    \/ HeartbeatSend

SpecStart == StartInit /\ [][StartNext]_vars

\* C11: after a start() that threw for want of an algorithm, and until a later
\* start(), the manager is not running, none of its threads exists and the
\* algorithm was not initialized; a start() made after set_algorithm then
\* runs to its end: it initializes the algorithm and creates every thread.
FailedStartHasNoEffect ==
    /\ (thrown = 1 /\ pc["ctl"] = "ready" /\ algorithmAtStart = NoAlgorithm) =>
           /\ ~running_
           /\ ~subscription_running_
           /\ ~initialized
           /\ \A t \in Tasks : pc[t] = "off"
           /\ algorithm_mutex_ = FreeSharedMutex
           /\ context_mutex_ = NoThread
    /\ (thrown = 1 /\ pc["ctl"] = "ready" /\ running_) =>
           /\ initialized
           /\ subscription_running_
           /\ \A t \in SpawnedTasks(config_) : pc[t] # "off"

\* start() threw, an algorithm was set, and the second start() created the
\* threads
FailedStartWitness ==
    /\ thrown = 1
    /\ running_
    /\ algorithm_ # NoAlgorithm
    /\ pc["ctl"] = "ready"
    /\ pc["ticker"] = "update"

\* ---- StateManager::try_transition and TaskStateMachine::try_transition
\* transitions registered with add_transition in the model
MaxTransitions == 2

StateNames == {"S1", "S2"}
TriggerNames == {"go", "stop"}

\* a State or TaskState, by the hooks that are set in it
StateDefs == {[on_enter |-> TRUE, on_exit |-> TRUE], [on_enter |-> FALSE, on_exit |-> FALSE]}

\* a Transition or TaskTransition: condition is "none" for an empty
\* std::function, "pass" or "fail" for a guard by the value it returns
TransitionDefs ==
    [from_state : StateNames, to_state : StateNames, trigger : TriggerNames,
     condition : {"none", "pass", "fail"}, action : BOOLEAN]

\* StateManager::add_state, lines 114-119
add_state(sm, name, state) ==
    [sm EXCEPT !.states_ = MapPut(@, name, state),
               !.initial_state_ = IF @ = NoState THEN name ELSE @]

\* TaskStateMachine::add_state, task_manager.h lines 58-64
task_add_state(tsm, name, state) ==
    [tsm EXCEPT !.states_ = MapPut(@, name, state),
                !.initial_state_ = IF @ = NoState THEN name ELSE @,
                !.current_state_ = IF tsm.initial_state_ = NoState THEN name ELSE @]

\* add_transition of both classes: transitions_.push_back(transition)
add_transition(sm, transition) == [sm EXCEPT !.transitions_ = Append(@, transition)]

\* get_state of both classes: the State registered under name, or nullptr
get_state(sm, name) == IF name \in DOMAIN sm.states_ THEN name ELSE NoState

\* !transition.condition || transition.condition(context)
condition_holds(transition) == transition.condition # "fail"

\* a scan of transitions_ that keeps the last match
RECURSIVE first_match_last(_, _, _, _)
first_match_last(transitions, current, trigger, i) ==
    IF i > Len(transitions) THEN 0
    ELSE LET later == first_match_last(transitions, current, trigger, i + 1)
         IN  IF later # 0 THEN later
             ELSE IF /\ transitions[i].from_state = current
                     /\ transitions[i].trigger = trigger
                     /\ condition_holds(transitions[i])
                  THEN i ELSE 0

\* the for loop of try_transition from index i (algorithm_framework.h lines
\* 137-140, task_manager.h lines 84-87): the index of the transition that
\* fires, 0 if the loop ends without one
RECURSIVE first_match(_, _, _, _)
first_match(transitions, current, trigger, i) ==
    IF i > Len(transitions) THEN 0
    ELSE IF /\ transitions[i].from_state = current
            /\ transitions[i].trigger = trigger
            /\ condition_holds(transitions[i])
         THEN i
         ELSE first_match(transitions, current, trigger, i + 1)

\* a try_transition that assigns the new state before it runs on_exit
transition_effects_set_first(states, exit_state, transition) ==
    <<[kind |-> "set", state |-> transition.to_state]>>
    \o (IF exit_state # NoState /\ states[exit_state].on_exit
        THEN <<[kind |-> "on_exit", state |-> exit_state]>> ELSE <<>>)
    \o (IF transition.action
        THEN <<[kind |-> "action", state |-> transition.from_state]>> ELSE <<>>)
    \o (IF transition.to_state \in DOMAIN states /\ states[transition.to_state].on_enter
        THEN <<[kind |-> "on_enter", state |-> transition.to_state]>> ELSE <<>>)

\* the body of the if of try_transition (algorithm_framework.h lines 142-158,
\* task_manager.h lines 89-106): the hooks it calls and the assignment of the
\* current state, in program order; exit_state is the State on_exit is looked
\* up in
transition_effects(states, exit_state, transition) ==
    (IF exit_state # NoState /\ states[exit_state].on_exit
     THEN <<[kind |-> "on_exit", state |-> exit_state]>> ELSE <<>>)
    \o (IF transition.action
        THEN <<[kind |-> "action", state |-> transition.from_state]>> ELSE <<>>)
    \o <<[kind |-> "set", state |-> transition.to_state]>>
    \o (IF transition.to_state \in DOMAIN states /\ states[transition.to_state].on_enter
        THEN <<[kind |-> "on_enter", state |-> transition.to_state]>> ELSE <<>>)

\* StateManager::try_transition(context, trigger)
try_transition(trigger) ==
    LET ts == state_manager_.transitions_
        i == first_match(ts, current_state_name, trigger, 1)
    IN  /\ smOp' = [machine |-> "StateManager", trigger |-> trigger,
                    from |-> current_state_name, ret |-> i # 0, fired |-> i]
        /\ IF i = 0
           THEN /\ effects' = <<>>
                /\ UNCHANGED <<current_state_name, current_state>>
           ELSE /\ effects' = transition_effects(state_manager_.states_, current_state, ts[i])
                /\ current_state_name' = ts[i].to_state
                /\ current_state' = get_state(state_manager_, ts[i].to_state)

\* TaskStateMachine::try_transition(context, task_id, trigger)
task_try_transition(trigger) ==
    LET ts == task_state_machine_.transitions_
        cur == task_state_machine_.current_state_
        i == first_match(ts, cur, trigger, 1)
    IN  /\ smOp' = [machine |-> "TaskStateMachine", trigger |-> trigger,
                    from |-> cur, ret |-> i # 0, fired |-> i]
        /\ IF i = 0
           THEN /\ effects' = <<>>
                /\ UNCHANGED task_state_machine_
           ELSE /\ effects' = transition_effects(task_state_machine_.states_,
                                                 get_state(task_state_machine_, cur), ts[i])
                /\ task_state_machine_' =
                       [task_state_machine_ EXCEPT !.current_state_ = ts[i].to_state]

\* the machines are set up before they run: no state or transition is added
\* once the context has entered the initial state or a trigger was delivered
InSetup == current_state_name = NoState /\ smOp = NoSmOp

\* the states are registered under the names S1, S2 in this order: the names
\* are labels, and the first one registered is the initial state
NextStateName(states) ==
    IF "S1" \notin DOMAIN states THEN {"S1"} ELSE StateNames \ DOMAIN states

AddState ==
    /\ InSetup
    /\ task_state_machine_ = NewTaskStateMachine
    /\ \E name \in NextStateName(state_manager_.states_), state \in StateDefs :
           state_manager_' = add_state(state_manager_, name, state)
    /\ UNCHANGED <<task_state_machine_, current_state_name, current_state,
                   trackVars, effects, smOp>>
    /\ UNCHANGED <<regVars, tmVars, mgrVars, envVars, callVars>>

AddTransition ==
    /\ InSetup
    /\ task_state_machine_ = NewTaskStateMachine
    /\ Len(state_manager_.transitions_) < MaxTransitions
    /\ \E transition \in TransitionDefs :
           state_manager_' = add_transition(state_manager_, transition)
    /\ UNCHANGED <<task_state_machine_, current_state_name, current_state,
                   trackVars, effects, smOp>>
    /\ UNCHANGED <<regVars, tmVars, mgrVars, envVars, callVars>>

\* the context enters the initial state, as initialize does
\* (target_tracking_algorithm.h lines 71-72)
EnterInitialState ==
    /\ InSetup
    /\ state_manager_.initial_state_ # NoState
    /\ current_state_name' = state_manager_.initial_state_
    /\ current_state' = get_state(state_manager_, state_manager_.initial_state_)
    /\ UNCHANGED <<state_manager_, task_state_machine_, trackVars, effects, smOp>>
    /\ UNCHANGED <<regVars, tmVars, mgrVars, envVars, callVars>>

TryTransition ==
    /\ current_state_name # NoState
    /\ \E trigger \in TriggerNames : try_transition(trigger)
    /\ UNCHANGED <<state_manager_, task_state_machine_, trackVars>>
    /\ UNCHANGED <<regVars, tmVars, mgrVars, envVars, callVars>>

TaskAddState ==
    /\ InSetup
    /\ state_manager_ = NewStateManager
    /\ \E name \in NextStateName(task_state_machine_.states_), state \in StateDefs :
           task_state_machine_' = task_add_state(task_state_machine_, name, state)
    /\ UNCHANGED <<state_manager_, current_state_name, current_state,
                   trackVars, effects, smOp>>
    /\ UNCHANGED <<regVars, tmVars, mgrVars, envVars, callVars>>

TaskAddTransition ==
    /\ InSetup
    /\ state_manager_ = NewStateManager
    /\ Len(task_state_machine_.transitions_) < MaxTransitions
    /\ \E transition \in TransitionDefs :
           task_state_machine_' = add_transition(task_state_machine_, transition)
    /\ UNCHANGED <<state_manager_, current_state_name, current_state,
                   trackVars, effects, smOp>>
    /\ UNCHANGED <<regVars, tmVars, mgrVars, envVars, callVars>>

TaskTryTransition ==
    /\ task_state_machine_.current_state_ # NoState
    /\ \E trigger \in TriggerNames : task_try_transition(trigger)
    /\ UNCHANGED <<state_manager_, current_state_name, current_state,
                   trackVars>>
    /\ UNCHANGED <<regVars, tmVars, mgrVars, envVars, callVars>>

SmInit == RegInit /\ TmInit /\ MgrInit(DefaultConfig, 0) /\ AlgInit /\ CallInit

SmNext ==
    \/ AddState
    \/ AddTransition
    \/ EnterInitialState
    \/ TryTransition
    \/ TaskAddState
    \/ TaskAddTransition
    \/ TaskTryTransition

SpecSm == SmInit /\ [][SmNext]_vars

\* the machine of the latest try_transition call: its transitions, its
\* states and its current state
OpTransitions ==
    IF smOp.machine = "StateManager" THEN state_manager_.transitions_
    ELSE task_state_machine_.transitions_

OpStates ==
    IF smOp.machine = "StateManager" THEN state_manager_.states_
    ELSE task_state_machine_.states_

OpCurrent ==
    IF smOp.machine = "StateManager" THEN current_state_name
    ELSE task_state_machine_.current_state_

\* the transitions the latest call could fire
OpMatches ==
    {i \in DOMAIN OpTransitions :
        /\ OpTransitions[i].from_state = smOp.from
        /\ OpTransitions[i].trigger = smOp.trigger
        /\ OpTransitions[i].condition \in {"none", "pass"}}

\* C12: try_transition fires the first transition in registration order whose
\* from is the current state, whose trigger is the given one and whose guard,
\* if any, is true, and returns true; without such a transition it returns
\* false, leaves the current state as it was and runs no hook or action. Both
\* for StateManager and for TaskStateMachine.
FirstMatchFires ==
    smOp.machine # "none" =>
        IF OpMatches = {}
        THEN /\ ~smOp.ret
             /\ smOp.fired = 0
             /\ OpCurrent = smOp.from
             /\ effects = <<>>
        ELSE /\ smOp.ret
             /\ smOp.fired \in OpMatches
             /\ \A i \in OpMatches : smOp.fired <= i
             /\ OpCurrent = OpTransitions[smOp.fired].to_state
             /\ \E k \in DOMAIN effects : effects[k].kind = "set"

\* a call with two matching transitions fired the first, a guarded transition
\* before them was passed over
FirstMatchWitness ==
    /\ smOp.machine = "TaskStateMachine"
    /\ Cardinality(OpMatches) = 2
    /\ smOp.fired = 1
    /\ OpTransitions[1].to_state # OpTransitions[2].to_state

\* a call that matched nothing
NoMatchWitness ==
    /\ smOp.machine = "StateManager"
    /\ ~smOp.ret
    /\ \E i \in DOMAIN OpTransitions :
           /\ OpTransitions[i].from_state = smOp.from
           /\ OpTransitions[i].trigger = smOp.trigger
           /\ OpTransitions[i].condition = "fail"

EffectRank(kind) ==
    CASE kind = "on_exit" -> 1
      [] kind = "action" -> 2
      [] kind = "set" -> 3
      [] kind = "on_enter" -> 4

\* C13: a transition that fires runs on_exit of the current state, then the
\* transition's action, then sets the current state to the target, then runs
\* on_enter of the new state, each hook if it is set; a self-loop runs the
\* state's on_exit and then its on_enter.
EffectOrder ==
    smOp.ret =>
        LET tr == OpTransitions[smOp.fired]
            Has(kind, state) ==
                \E k \in DOMAIN effects : effects[k] = [kind |-> kind, state |-> state]
        IN  /\ \A j, k \in DOMAIN effects :
                   j < k => EffectRank(effects[j].kind) < EffectRank(effects[k].kind)
            /\ \A k \in DOMAIN effects :
                   effects[k].state = IF effects[k].kind \in {"on_exit", "action"}
                                      THEN smOp.from ELSE tr.to_state
            /\ Has("set", tr.to_state)
            /\ Has("action", smOp.from) <=> tr.action
            /\ Has("on_exit", smOp.from) <=>
                   (smOp.from \in DOMAIN OpStates /\ OpStates[smOp.from].on_exit)
            /\ Has("on_enter", tr.to_state) <=>
                   (tr.to_state \in DOMAIN OpStates /\ OpStates[tr.to_state].on_enter)

\* a self-loop with an action ran on_exit, the action, the assignment and
\* on_enter, in this order
EffectOrderWitness ==
    /\ smOp.machine = "StateManager"
    /\ smOp.ret
    /\ OpTransitions[smOp.fired].to_state = smOp.from
    /\ effects = <<[kind |-> "on_exit", state |-> smOp.from],
                   [kind |-> "action", state |-> smOp.from],
                   [kind |-> "set", state |-> smOp.from],
                   [kind |-> "on_enter", state |-> smOp.from]>>

\* ---------------------------------------------------------------------------
\* TargetTrackingAlgorithm (algorithms/target_tracking_algorithm.h)
\*
\* A call of the algorithm is computed on a record S of the context fields it
\* reads and writes: name (current_state_name), data (algorithm_data), out
\* (pending_outputs) and status (last_status_time_). The clock now counts
\* seconds here. Confidence is kept in thousandths, positions in centimetres
\* along the x axis (azimuth and elevation of every detection are 0, so y and
\* z stay 0); the velocity fields are written by update_target_position and
\* read nowhere, and are left out, as is the message history.
\* ---------------------------------------------------------------------------

\* struct Parameters, lines 41-49
Parameters ==
    [min_confidence_threshold |-> 700, acquisition_threshold |-> 500,
     lost_threshold |-> 300, min_sensor_consensus |-> 2, target_timeout |-> 10,
     position_noise |-> 1]

\* the clock stops after MaxAlgTicks steps
MaxAlgTicks == 8

\* the messages the bus delivers to the algorithm
MaxDetections == 2

\* detection.range() in centimetres and detection.rcs() in hundredths
Ranges == {500, 5000}
RcsValues == {5, 100}
Detections == [range : Ranges, rcs : RcsValues]

RefStateNames == {"IDLE", "ACQUIRING", "TRACKING", "LOST"}

\* the trigger names handle_trigger is called with
RefTriggers == {"reset", "node_timeout", "target_detected", "target_lost", "confirmed",
                "false_positive", "reacquired", "timeout"}

\* std::string{}: find_closest_target found no target
NoTarget == ""

\* Target::Target(id), lines 36-37
NewTarget == [x |-> 0, confidence |-> 0, last_update |-> NoTime, sensor_detections |-> EmptyMap]

\* "target_" + std::to_string(targets.size()), line 290
TargetName(n) == "target_" \o ToString(n)

Min(a, b) == IF a < b THEN a ELSE b

Distance(a, b) == IF a < b THEN b - a ELSE a - b

SetData(S, key, value) == [S EXCEPT !.data = MapPut(@, key, value)]

HasData(S, key) == key \in DOMAIN S.data

\* the State objects of setup_state_machine, lines 191-231, by the hooks set
RefState == [on_enter |-> TRUE, on_exit |-> FALSE]

\* the Transition objects of setup_state_machine, lines 243-254, in order
RefTransition(from, to, trigger) ==
    [from_state |-> from, to_state |-> to, trigger |-> trigger,
     condition |-> "none", action |-> FALSE]

\* a table whose detection transition leads from IDLE straight to TRACKING
RefTransitions_direct ==
    <<RefTransition("IDLE", "TRACKING", "detection"),
      RefTransition("ACQUIRING", "TRACKING", "confirmed"),
      RefTransition("ACQUIRING", "IDLE", "false_positive"),
      RefTransition("TRACKING", "LOST", "lost"),
      RefTransition("LOST", "TRACKING", "reacquired"),
      RefTransition("LOST", "IDLE", "timeout"),
      RefTransition("IDLE", "IDLE", "reset"),
      RefTransition("ACQUIRING", "IDLE", "reset"),
      RefTransition("TRACKING", "IDLE", "reset"),
      RefTransition("LOST", "IDLE", "reset")>>

\* lines 243-254
RefTransitions ==
    <<RefTransition("IDLE", "ACQUIRING", "detection"),
      RefTransition("ACQUIRING", "TRACKING", "confirmed"),
      RefTransition("ACQUIRING", "IDLE", "false_positive"),
      RefTransition("TRACKING", "LOST", "lost"),
      RefTransition("LOST", "TRACKING", "reacquired"),
      RefTransition("LOST", "IDLE", "timeout"),
      RefTransition("IDLE", "IDLE", "reset"),
      RefTransition("ACQUIRING", "IDLE", "reset"),
      RefTransition("TRACKING", "IDLE", "reset"),
      RefTransition("LOST", "IDLE", "reset")>>

RECURSIVE add_transitions(_, _, _)
add_transitions(sm, transitions, i) ==
    IF i > Len(transitions) THEN sm
    ELSE add_transitions(add_transition(sm, transitions[i]), transitions, i + 1)

\* setup_state_machine, lines 189-255
setup_state_machine(sm) ==
    LET s1 == add_state(sm, "IDLE", RefState)
        s2 == add_state(s1, "ACQUIRING", RefState)
        s3 == add_state(s2, "TRACKING", RefState)
        s4 == add_state(s3, "LOST", RefState)
    IN  add_transitions([s4 EXCEPT !.initial_state_ = "IDLE"], RefTransitions, 1)

\* send_gimbal_command_for_target, lines 529-557: theta = atan2(0, x) and
\* phi = asin(0 / x) are 0 for every target, whose x is positive
GimbalCommand ==
    [type |-> "POINT_GIMBAL", target_node_id |-> "coherent_001", theta |-> 0, phi |-> 0]

send_gimbal_command_for_target(S) == [S EXCEPT !.out = Append(@, GimbalCommand)]

\* send_gimbal_commands, lines 510-527: one command for the best target
send_gimbal_commands(S) ==
    IF ~HasData(S, "targets") \/ S.data["targets"] = EmptyMap THEN S
    ELSE send_gimbal_command_for_target(S)

\* the on_enter hooks of lines 192-224
on_enter(name, S, t) ==
    CASE name = "IDLE" -> SetData(S, "scanning", TRUE)
      [] name = "ACQUIRING" -> SetData(S, "acquisition_start", t)
      [] name = "TRACKING" -> send_gimbal_commands(S)
      [] name = "LOST" -> SetData(S, "lost_start", t)
      [] OTHER -> S

\* the effects of a transition, applied to the context in their order
RECURSIVE run_effects(_, _, _, _)
run_effects(S, effs, i, t) ==
    IF i > Len(effs) THEN S
    ELSE LET e == effs[i]
             next == CASE e.kind = "set" -> [S EXCEPT !.name = e.state]
                       [] e.kind = "on_enter" -> on_enter(e.state, S, t)
                       [] OTHER -> S
         IN  run_effects(next, effs, i + 1, t)

\* FusionAlgorithm::trigger_transition: StateManager::try_transition on the context
trigger_transition(S, trigger, t) ==
    LET ts == state_manager_.transitions_
        i == first_match(ts, S.name, trigger, 1)
    IN  IF i = 0 THEN S
        ELSE run_effects(S, transition_effects(state_manager_.states_,
                                               get_state(state_manager_, S.name), ts[i]), 1, t)

\* handle_node_timeout, lines 582-597
handle_node_timeout(S, node_id) ==
    IF ~HasData(S, "targets") THEN S
    ELSE LET targets == S.data["targets"]
             lowered(target) ==
                 IF node_id \in DOMAIN target.sensor_detections
                 THEN [target EXCEPT !.confidence = (@ * 8) \div 10,
                                     !.sensor_detections = MapErase(@, {node_id})]
                 ELSE target
         IN  SetData(S, "targets", [id \in DOMAIN targets |-> lowered(targets[id])])

\* the data handle_trigger("reset") leaves, when the targets are kept
reset_data_keep(S) == SetData(S, "detection_count", 0)

\* lines 143-144: the data handle_trigger("reset") leaves
reset_data(S) == SetData(SetData(S, "targets", EmptyMap), "detection_count", 0)

\* handle_trigger, lines 138-168
handle_trigger(S, trigger_name, node_id, t) ==
    CASE trigger_name = "reset" -> trigger_transition(reset_data(S), "reset", t)
      [] trigger_name = "node_timeout" -> handle_node_timeout(S, node_id)
      [] trigger_name = "target_detected" -> trigger_transition(S, "detection", t)
      [] trigger_name = "target_lost" -> trigger_transition(S, "lost", t)
      [] OTHER -> trigger_transition(S, trigger_name, t)

\* find_closest_target, lines 600-618: the targets nearer than 5 m at the
\* least distance; among equally near ones the iteration order of the
\* unordered_map decides
closest_targets(targets, x) ==
    LET near == {id \in DOMAIN targets : Distance(targets[id].x, x) < 500}
    IN  {id \in near : \A other \in near :
                           Distance(targets[id].x, x) <= Distance(targets[other].x, x)}

\* update_target_position, lines 620-647
update_target_position(target, x, confidence_boost, sensor_id, t) ==
    [x |-> (target.x * (10 - Parameters.position_noise) + x * Parameters.position_noise) \div 10,
     confidence |-> Min(1000, target.confidence + confidence_boost),
     last_update |-> t,
     sensor_detections |->
         MapPut(target.sensor_detections, sensor_id,
                IF sensor_id \in DOMAIN target.sensor_detections
                THEN target.sensor_detections[sensor_id] + 1 ELSE 1)]

\* line 283: the rcs filter on a detection
passes_filter(detection) == detection.rcs > 10

\* a radar detection that reports the lost target as found again
after_detections_reacquired(S, t) ==
    IF S.data["targets"] # EmptyMap THEN handle_trigger(S, "reacquired", "", t) ELSE S

\* lines 310-312: the context when process_radar_detections returns
after_detections(S, t) ==
    IF S.data["targets"] # EmptyMap THEN handle_trigger(S, "target_detected", "", t) ELSE S

\* process_radar_detections, lines 272-313, on a message of one detection;
\* closest is what find_closest_target returned for it
process_radar_detections(S, node_id, detection, closest, t) ==
    IF ~HasData(S, "targets") THEN S
    ELSE LET targets == S.data["targets"]
             target_id == IF closest = NoTarget THEN TargetName(Cardinality(DOMAIN targets))
                          ELSE closest
             known == IF closest = NoTarget THEN NewTarget ELSE targets[closest]
             after == IF passes_filter(detection)
                      THEN MapPut(targets, target_id,
                                  update_target_position(known, detection.range, 800, node_id, t))
                      ELSE targets
         IN  after_detections(SetData(S, "targets", after), t)

\* scan_for_targets, lines 383-390
scan_for_targets(S, t) ==
    IF HasData(S, "detection_count") /\ S.data["detection_count"] > 0
    THEN handle_trigger(S, "target_detected", "", t) ELSE S

\* line 402: the sensors that back a target are enough to confirm it
consensus(target) ==
    Cardinality(DOMAIN target.sensor_detections) >= Parameters.min_sensor_consensus

\* evaluate_target_candidates, lines 392-416
evaluate_target_candidates(S, t) ==
    IF ~HasData(S, "targets") THEN S
    ELSE LET targets == S.data["targets"]
             backed(target) ==
                 target.confidence > Parameters.acquisition_threshold /\ consensus(target)
             raised(target) ==
                 IF backed(target)
                 THEN [target EXCEPT !.confidence = Min(1000, @ + 100)] ELSE target
             after == [id \in DOMAIN targets |-> raised(targets[id])]
             confirmed_target ==
                 \E id \in DOMAIN targets :
                     /\ backed(targets[id])
                     /\ after[id].confidence > Parameters.min_confidence_threshold
             S1 == SetData(S, "targets", after)
         IN  IF confirmed_target THEN handle_trigger(S1, "confirmed", "", t) ELSE S1

\* line 431: the confidence of a target that was not seen for target_timeout
decayed(target, t) ==
    IF t - target.last_update > Parameters.target_timeout
    THEN [target EXCEPT !.confidence = (@ * 9) \div 10] ELSE target

RECURSIVE gimbal_commands(_, _)
gimbal_commands(S, n) ==
    IF n = 0 THEN S ELSE gimbal_commands(send_gimbal_command_for_target(S), n - 1)

\* update_tracking, lines 418-445
update_tracking(S, t) ==
    IF ~HasData(S, "targets") THEN S
    ELSE LET targets == S.data["targets"]
             after == [id \in DOMAIN targets |-> decayed(targets[id], t)]
             valid == {id \in DOMAIN after : after[id].confidence > Parameters.lost_threshold}
             S1 == gimbal_commands(SetData(S, "targets", after), Cardinality(valid))
         IN  IF valid = {} THEN handle_trigger(S1, "lost", "", t) ELSE S1

\* the search of a lost target that never gives up
lost_timed_out_never(lost_start, t) == FALSE

\* line 452: the target was lost for more than 30 seconds
lost_timed_out(lost_start, t) == t - lost_start > 30

\* search_for_lost_targets, lines 447-456
search_for_lost_targets(S, t) ==
    IF HasData(S, "lost_start") /\ lost_timed_out(S.data["lost_start"], t)
    THEN handle_trigger(S, "timeout", "", t) ELSE S

\* the on_update hooks of lines 196-228
on_update(name, S, t) ==
    CASE name = "IDLE" -> scan_for_targets(S, t)
      [] name = "ACQUIRING" -> evaluate_target_candidates(S, t)
      [] name = "TRACKING" -> update_tracking(S, t)
      [] name = "LOST" -> search_for_lost_targets(S, t)
      [] OTHER -> S

\* update_target_tracking, lines 458-478
update_target_tracking(S, t) ==
    IF ~HasData(S, "targets") THEN S
    ELSE LET targets == S.data["targets"]
             old == {id \in DOMAIN targets :
                        t - targets[id].last_update > Parameters.target_timeout * 2}
         IN  SetData(S, "targets", MapErase(targets, old))

\* check_state_transitions, lines 480-494
check_state_transitions(S) ==
    IF ~HasData(S, "targets") THEN S
    ELSE LET targets == S.data["targets"]
         IN  SetData(S, "detection_count",
                     Cardinality({id \in DOMAIN targets : targets[id].confidence > 300}))

\* send_fusion_results, lines 559-580
FusionResult(S) ==
    [type |-> "FUSION_RESULT", targets |-> Cardinality(DOMAIN S.data["targets"]),
     state |-> S.name]

\* send_status_updates, lines 496-508
send_status_updates(S, t) ==
    IF S.status = NoTime \/ t - S.status > 5
    THEN [(IF HasData(S, "targets") THEN [S EXCEPT !.out = Append(@, FusionResult(S))] ELSE S)
          EXCEPT !.status = t]
    ELSE S

\* update, lines 119-136; update_all_tasks changes no task, none being ACTIVE
update(S, t) ==
    LET S1 == on_update(S.name, S, t)
        S2 == update_target_tracking(S1, t)
        S3 == check_state_transitions(S2)
    IN  send_status_updates(S3, t)

\* initialize, lines 67-91, on the context; the state machine is set up first
initialize(S, sm, t) ==
    LET d1 == SetData(S, "targets", EmptyMap)
        d2 == SetData(d1, "detection_count", 0)
        d3 == SetData(d2, "parameters", Parameters)
        d4 == SetData(d3, "default_device_id", "default_device")
        named == [d4 EXCEPT !.name = sm.initial_state_]
    IN  IF get_state(sm, sm.initial_state_) # NoState /\ sm.states_[sm.initial_state_].on_enter
        THEN on_enter(sm.initial_state_, named, t) ELSE named

\* line 102: the size a history may not exceed
HistoryCap == 100

\* line 105: the entries erased from the front
HistoryDrop == 50

\* a history that is never trimmed
trim_history_never(history) == history

\* lines 102-106: erase(begin(), begin() + 50) once the size exceeds 100
trim_history(history) ==
    IF Len(history) > HistoryCap THEN SubSeq(history, HistoryDrop + 1, Len(history))
    ELSE history

\* lines 97-106: message_history[node_id] after the push_back and the trim
store_message(histories, node_id, m) ==
    MapPut(histories, node_id, trim_history(Append(Bucket(histories, node_id), m)))

\* ---- the calls of the algorithm, as the manager's threads make them

regRest == <<nodes_, last_seen_, node_status_, regOp, reported, evictedSince>>

envRest == <<dropped, processed, calls, emitting, outLeft, published,
             initialized, overlooked, algorithmAtStart, triggers>>

mgrRest == <<config_, algorithm_, running_, subscription_running_, message_queue_,
             algorithm_mutex_, context_mutex_, queue_mutex_, pc,
             message, messages_to_send, removed, inbound>>

smRest == <<task_state_machine_, effects, smOp>>

\* the context fields a call of the algorithm works on
Ctx ==
    [name |-> current_state_name, data |-> algorithm_data, out |-> pending_outputs,
     status |-> last_status_time_]

\* the context fields after the call
Store(result, sm) ==
    \E S \in {result} :
        /\ current_state_name' = S.name
        /\ current_state' = get_state(sm, S.name)
        /\ algorithm_data' = S.data
        /\ pending_outputs' = S.out
        /\ last_status_time_' = S.status

\* lines 293-298: create_task_for_target and assign_task_to_device of the
\* task of a new target, task_manager.h lines 377-416
track_new_target(target_id, device_id) ==
    /\ next_task_id_ <= MaxTasks
    /\ LET task_id == next_task_id_
       IN  /\ next_task_id_' = next_id(next_task_id_)
           /\ issued' = issued \cup {task_id}
           /\ UNCHANGED last_cleanup_time_
           /\ tasks_' = MapPut(tasks_, task_id, set_device_id(NewTask(target_id), device_id))
           /\ target_to_tasks_' = MapPut(target_to_tasks_, target_id,
                                         Append(Bucket(target_to_tasks_, target_id), task_id))
           /\ device_to_tasks_' = MapPut(device_to_tasks_, device_id,
                                         Append(Bucket(device_to_tasks_, device_id), task_id))
           /\ target_primary_device_' =
                  primary_after_assign(target_primary_device_, target_id, device_id)
           /\ tmOp' = [op |-> "assign", task |-> task_id, device |-> device_id, ok |-> TRUE]

\* set_algorithm: initialize(context) of a new TargetTrackingAlgorithm
AlgInitialize ==
    /\ current_state_name = NoState
    /\ state_manager_ = NewStateManager
    /\ LET sm == setup_state_machine(state_manager_)
       IN  /\ state_manager_' = sm
           /\ Store(initialize(Ctx, sm, now), sm)
    /\ algOp' = [op |-> "initialize", from |-> current_state_name]
    /\ UNCHANGED <<updated, smRest, arrived, now, message_history>>
    /\ UNCHANGED <<regRest, envRest, mgrRest, tmVars, callVars>>

\* a worker's process_l1_message(context, message) of a radar message with
\* one detection, while fewer than limit messages have arrived
AlgProcessRadar(limit) ==
    /\ current_state_name # NoState
    /\ pending_outputs = <<>>
    /\ arrived < limit
    /\ \E node_id \in NodeIds, detection \in Detections :
           LET targets == algorithm_data["targets"]
               found == IF passes_filter(detection)
                        THEN closest_targets(targets, detection.range) ELSE {}
           IN  \E closest \in (IF found = {} THEN {NoTarget} ELSE found) :
                   /\ Store(process_radar_detections(Ctx, node_id, detection, closest, now),
                            state_manager_)
                   /\ IF passes_filter(detection) /\ found = {}
                      THEN track_new_target(TargetName(Cardinality(DOMAIN targets)),
                                            algorithm_data["default_device_id"])
                      ELSE UNCHANGED tmVars
           /\ message_history' = store_message(message_history, node_id, arrived + 1)
    /\ arrived' = arrived + 1
    /\ algOp' = [op |-> "process", from |-> current_state_name]
    /\ UNCHANGED <<state_manager_, updated, smRest, now>>
    /\ UNCHANGED <<regRest, envRest, mgrRest, callVars>>

\* the inputs arrive before the clock advances
AlgProcess ==
    /\ now = 0
    /\ AlgProcessRadar(MaxDetections)

\* the ticker's update(context)
AlgUpdate ==
    /\ current_state_name # NoState
    /\ pending_outputs = <<>>
    /\ Store(update(Ctx, now), state_manager_)
    /\ algOp' = [op |-> "update", from |-> current_state_name]
    /\ updated' = TRUE
    /\ UNCHANGED <<state_manager_, smRest, arrived, now, message_history>>
    /\ UNCHANGED <<regRest, envRest, mgrRest, tmVars, callVars>>

\* trigger_algorithm_event: handle_trigger(context, trigger_name, node_id)
AlgTrigger ==
    /\ current_state_name # NoState
    /\ pending_outputs = <<>>
    /\ \E trigger_name \in RefTriggers, node_id \in NodeIds :
           /\ Store(handle_trigger(Ctx, trigger_name, node_id, now), state_manager_)
           /\ algOp' = [op |-> trigger_name, from |-> current_state_name]
    /\ UNCHANGED <<state_manager_, updated, smRest, arrived, now, message_history>>
    /\ UNCHANGED <<regRest, envRest, mgrRest, tmVars, callVars>>

\* send_pending_outputs of the thread that made the call
AlgSend ==
    /\ pending_outputs # <<>>
    /\ pending_outputs' = <<>>
    /\ UNCHANGED <<state_manager_, current_state_name, current_state, trackVars, smRest,
                   arrived, now>>
    /\ UNCHANGED <<regRest, envRest, mgrRest, tmVars, callVars>>

\* the steady clock advances by ten seconds; the ticker, whose period is far
\* shorter, has called update since the last step
AlgTick ==
    /\ current_state_name # NoState
    /\ updated
    /\ now < MaxAlgTicks * Parameters.target_timeout
    /\ now' = now + Parameters.target_timeout
    /\ updated' = FALSE
    /\ UNCHANGED <<state_manager_, current_state_name, current_state, algorithm_data,
                   last_status_time_, algOp, smRest, arrived, message_history>>
    /\ UNCHANGED <<regRest, envRest, mgrVars, tmVars, callVars>>

TrackInit == RegInit /\ TmInit /\ MgrInit(DefaultConfig, 0) /\ AlgInit /\ CallInit

TrackNext == AlgInitialize \/ AlgProcess \/ AlgUpdate \/ AlgSend \/ AlgTick

\* the algorithm under messages that arrive at the start, updates and the clock
SpecTrack == TrackInit /\ [][TrackNext]_vars

\* the ticker keeps calling update and sending, and the clock keeps running
SpecTrackLive ==
    SpecTrack /\ WF_vars(AlgUpdate) /\ WF_vars(AlgSend) /\ WF_vars(AlgTick)

Targets == IF "targets" \in DOMAIN algorithm_data THEN algorithm_data["targets"] ELSE EmptyMap

\* the latest call was process_l1_message of a radar detection that passed
\* the filter, made in IDLE: it created a target and the task of the target
DetectionInIdle ==
    /\ algOp = [op |-> "process", from |-> "IDLE"]
    /\ tmOp.op = "assign"
    /\ tmOp.task \in DOMAIN tasks_
    /\ tasks_[tmOp.task].target_id \in DOMAIN Targets

\* C14: when process_l1_message of a radar detection received in IDLE
\* returns, having created the target and its task, the state is still IDLE
\* (the detection transition is left to a later update)
ProcessKeepsIdle == DetectionInIdle => current_state_name = "IDLE"

\* a POINT_GIMBAL command to coherent_001 is among the pending outputs
GimbalPending == \E i \in DOMAIN pending_outputs : pending_outputs[i] = GimbalCommand

\* one message of one radar node has been processed, and its detection
\* passed the filter
OneDetection == arrived = 1 /\ Targets # EmptyMap

\* C15: after one message of one radar node with a detection above the
\* filter, under repeated updates (and unless a further message arrives) the
\* algorithm eventually is in TRACKING with a POINT_GIMBAL command to
\* coherent_001 in pending_outputs
OneDetectionLeadsToTracking ==
    OneDetection ~> (arrived > 1 \/ (current_state_name = "TRACKING" /\ GimbalPending))

\* the latest call was an update that began in state from and ended in state to
UpdateMoved(from, to) ==
    algOp = [op |-> "update", from |-> from] /\ current_state_name = to

\* C16: from TRACKING, with no further message and update called again and
\* again, an update fires lost, and only when no target is above
\* lost_threshold; from LOST an update fires timeout, and only when more than
\* 30 seconds have elapsed in LOST; the state then is IDLE and no step
\* other than an inbound message changes it
TrackingLostThenIdle ==
    /\ (current_state_name = "TRACKING") ~> (current_state_name = "LOST")
    /\ (current_state_name = "LOST") ~> (current_state_name = "IDLE")
    /\ [][(/\ current_state_name = "IDLE"
           /\ "lost_start" \in DOMAIN algorithm_data
           /\ arrived' = arrived) => current_state_name' = "IDLE"]_vars
    /\ [](UpdateMoved("TRACKING", "LOST") =>
              \A id \in DOMAIN Targets :
                  Targets[id].confidence <= Parameters.lost_threshold)
    /\ [](UpdateMoved("LOST", "IDLE") => now - algorithm_data["lost_start"] > 30)

\* an update in LOST has fired timeout, after a lost that an update fired
TimedOutWitness ==
    /\ UpdateMoved("LOST", "IDLE")
    /\ now - algorithm_data["lost_start"] > 30
    /\ updated

ResetNext == AlgInitialize \/ AlgProcess \/ AlgUpdate \/ AlgSend \/ AlgTrigger

\* the algorithm under messages, updates and the triggers of trigger_algorithm_event
SpecReset == TrackInit /\ [][ResetNext]_vars

\* C17: when handle_trigger("reset") returns, whichever of IDLE, ACQUIRING,
\* TRACKING and LOST it was called in, the state is IDLE and the targets
\* entry of the algorithm data is present and empty
ResetLeavesIdleEmpty ==
    (algOp.op = "reset" /\ algOp.from \in RefStateNames) =>
        /\ current_state_name = "IDLE"
        /\ current_state = "IDLE"
        /\ "targets" \in DOMAIN algorithm_data
        /\ algorithm_data["targets"] = EmptyMap

\* reset was called in LOST, with tasks of earlier targets around
ResetFromLostWitness ==
    /\ algOp = [op |-> "reset", from |-> "LOST"]
    /\ current_state_name = "IDLE"
    /\ tasks_ # EmptyMap

ResetFromTrackingWitness ==
    algOp = [op |-> "reset", from |-> "TRACKING"] /\ current_state_name = "IDLE"

ResetFromAcquiringWitness ==
    algOp = [op |-> "reset", from |-> "ACQUIRING"] /\ current_state_name = "IDLE"

ResetFromIdleWitness ==
    algOp = [op |-> "reset", from |-> "IDLE"] /\ current_state_name = "IDLE" /\ arrived > 0

\* C18: check_and_remove_timed_out_nodes(timeout) erases from nodes_,
\* node_status_ and last_seen_ exactly the ids with now - last_seen >= timeout
\* and returns exactly those; an id with now - last_seen < timeout keeps its
\* entries and is not returned
SweepRemovesExactlyTimedOut ==
    [][check_and_remove_timed_out_nodes(NodeTimeout) =>
           LET old == {id \in DOMAIN last_seen_ : now - last_seen_[id] >= NodeTimeout}
               fresh == {id \in DOMAIN last_seen_ : now - last_seen_[id] < NodeTimeout}
           IN  /\ regOp'.ids = old
               /\ DOMAIN last_seen_' = fresh
               /\ DOMAIN nodes_' = DOMAIN nodes_ \ old
               /\ DOMAIN node_status_' = DOMAIN node_status_ \ old
               /\ \A id \in fresh : last_seen_'[id] = last_seen_[id]
               /\ \A id \in fresh \cap DOMAIN nodes_ : nodes_'[id] = nodes_[id]
               /\ \A id \in fresh \cap DOMAIN node_status_ :
                      node_status_'[id] = node_status_[id]]_vars

\* a sweep has evicted a node and has left one that was written at the instant
\* of the sweep
SweepKeepsFreshWitness ==
    /\ regOp.op = "sweep"
    /\ regOp.ids # {}
    /\ \E id \in DOMAIN last_seen_ : last_seen_[id] = now /\ id \in DOMAIN nodes_
    /\ regOp.ids \cap DOMAIN last_seen_ = {}

\* task_id is in no list of the index m
InNoBucket(m, task_id) == \A k \in DOMAIN m : task_id \notin SeqToSet(m[k])

\* no key of the index m maps to an empty list
NoEmptyBucket(m) == \A k \in DOMAIN m : m[k] # <<>>

\* what remove_task(task_id), returning true, leaves of the task and of the
\* primary device of its target
RemoveScrubs(task_id) ==
    LET target_id == tasks_[task_id].target_id
        left == {t \in DOMAIN tasks_' : tasks_'[t].target_id = target_id}
    IN  /\ task_id \notin DOMAIN tasks_'
        /\ InNoBucket(target_to_tasks_', task_id)
        /\ InNoBucket(device_to_tasks_', task_id)
        /\ IF left = {}
           THEN target_id \notin DOMAIN target_primary_device_'
           ELSE target_primary_device_' = target_primary_device_

Holders(m, task_id) ==
    {<<k, i>> \in (DOMAIN m) \X TaskIds : i \in DOMAIN m[k] /\ m[k][i] = task_id}

\* every task with a device is once in the list of its device and in no other
AssignedExactlyOnce(ts, m) ==
    \A task_id \in DOMAIN ts :
        ts[task_id].device_id # NoDevice =>
            /\ Cardinality(Holders(m, task_id)) = 1
            /\ \A h \in Holders(m, task_id) : h[1] = ts[task_id].device_id

\* C20: assign_task_to_device of a task that has a device takes the id out
\* of the list of the previous device, erases that list from device_to_tasks_
\* if it became empty, and appends the id to the list of the new device:
\* every assigned task id is exactly once in device_to_tasks_, in the list of
\* its device
ReassignDropsEmptyBucket ==
    [][\A task_id \in TaskIds, device_id \in DeviceIds :
           (/\ task_id \in DOMAIN tasks_
            /\ tasks_[task_id].device_id # NoDevice
            /\ assign_task_to_device(task_id, device_id)) =>
               LET prev == tasks_[task_id].device_id
               IN  /\ prev # device_id =>
                          task_id \notin SeqToSet(Bucket(device_to_tasks_', prev))
                   /\ prev \in DOMAIN device_to_tasks_' => device_to_tasks_'[prev] # <<>>
                   /\ AssignedExactlyOnce(tasks_', device_to_tasks_')]_vars

\* no create, assign or remove leaves the id of an assigned task twice in
\* device_to_tasks_, or in the list of another device than its own
AssignedOnce == AssignedExactlyOnce(tasks_, device_to_tasks_)

\* whatever the clock, TRACKING (and LOST after it) is entered only after two
\* messages were processed: one message leaves the algorithm short of it
TrackingNeedsTwoMessages ==
    current_state_name \in {"TRACKING", "LOST"} => arrived >= 2

tmData == <<tasks_, target_to_tasks_, device_to_tasks_, target_primary_device_, next_task_id_>>

\* C21: assign_task_to_device and remove_task of a task id that is not in
\* tasks_ return false and leave tasks_, target_to_tasks_, device_to_tasks_,
\* target_primary_device_ and next_task_id_ as they were
UnknownTaskIsRefused ==
    [][\A task_id \in TaskIds \ DOMAIN tasks_ :
           /\ remove_task(task_id) => (~tmOp'.ok /\ UNCHANGED tmData)
           /\ \A device_id \in DeviceIds :
                  assign_task_to_device(task_id, device_id) =>
                      (~tmOp'.ok /\ UNCHANGED tmData)]_vars

\* a call on an id that was handed out and removed again was refused, with
\* other tasks stored and assigned
UnknownTaskWitness ==
    /\ tmOp.op \in {"assign", "remove"}
    /\ ~tmOp.ok
    /\ tmOp.task < next_task_id_
    /\ tmOp.task \notin DOMAIN tasks_
    /\ device_to_tasks_ # EmptyMap

\* C22: every create_task returns an id greater than every id returned
\* before it, whatever was removed or cleared in between, so no id is
\* handed out twice
TaskIdsIncrease ==
    [][\A target_id \in TargetIds :
           create_task(target_id) =>
               /\ next_task_id_' > next_task_id_
               /\ \A earlier \in issued : tmOp'.task > earlier]_vars

\* the third id has been returned after the first two were removed or cleared
TaskIdsIncreaseWitness ==
    /\ tmOp.op = "create"
    /\ tmOp.task = MaxTasks
    /\ DOMAIN tasks_ = {MaxTasks}

\* C23, its last part: once a task is COMPLETED, FAILED or CANCELLED, no
\* operation changes its status again
TerminalStatusIsFinal ==
    [][\A task_id \in DOMAIN tasks_ :
           tasks_[task_id].status \in Terminal =>
               /\ task_id \in DOMAIN tasks_'
               /\ tasks_'[task_id].status = tasks_[task_id].status]_vars

\* C23, what the code keeps of it: assign_task_to_device moves a CREATED task
\* to ASSIGNED and leaves every other status as it is
AssignMovesCreatedToAssigned ==
    [][\A task_id \in DOMAIN tasks_, device_id \in DeviceIds :
           assign_task_to_device(task_id, device_id) =>
               tasks_'[task_id].status =
                   IF tasks_[task_id].status = "CREATED" THEN "ASSIGNED"
                   ELSE tasks_[task_id].status]_vars

\* the progress of every stored task is between 0 and 100 percent
ProgressInRange ==
    \A task_id \in DOMAIN tasks_ :
        tasks_[task_id].progress >= 0 /\ tasks_[task_id].progress <= Percent100

\* C24: set_progress(p) stores 0 for p below 0, 100 for p above 100 and p
\* otherwise; set_status(COMPLETED) sets the progress to 100; set_status of
\* FAILED or CANCELLED leaves it; and the progress is in [0, 100] throughout
ProgressRules ==
    /\ []ProgressInRange
    /\ [][\A task_id \in DOMAIN tasks_ :
              /\ \A p \in ProgressInputs :
                     TaskSetProgress(task_id, p) =>
                         tasks_'[task_id].progress =
                             IF p < 0 THEN 0 ELSE IF p > Percent100 THEN Percent100 ELSE p
              /\ TaskSetStatus(task_id, "COMPLETED") =>
                     tasks_'[task_id].progress = Percent100
              /\ \A status \in {"FAILED", "CANCELLED"} :
                     TaskSetStatus(task_id, status) =>
                         tasks_'[task_id].progress = tasks_[task_id].progress]_vars

\* a task whose progress was set inside the range has FAILED and kept it
ProgressWitness ==
    \E task_id \in DOMAIN tasks_ :
        /\ tasks_[task_id].status = "FAILED"
        /\ tasks_[task_id].progress \notin {0, Percent100}

\* C25: messages_processed_ counts the process_l1_message calls that have
\* returned (not the ones that threw, nor the ones still running);
\* messages_sent_ counts the publishes on l2_to_l1 that succeeded; an output
\* whose publish failed is not counted, is never published and is not kept
\* for another attempt
StatisticsCount ==
    /\ messages_processed_ =
           Len(processed) - Cardinality(threw)
               - Cardinality({w \in Workers : pc[w] = "process_l1_message"})
    /\ messages_sent_ = Len(published)
    /\ \A m \in failed :
           /\ \A i \in DOMAIN published : published[i] # m
           /\ \A i \in DOMAIN pending_outputs : pending_outputs[i] # m
           /\ \A t \in DOMAIN messages_to_send :
                  \A i \in DOMAIN messages_to_send[t] : messages_to_send[t][i] # m

\* a call threw and was not counted, and of the outputs sent since, one
\* failed and a later one of the same thread went out
StatisticsWitness ==
    /\ threw # {}
    /\ messages_processed_ = 0
    /\ \A w \in Workers : pc[w] # "process_l1_message"
    /\ failed # {}
    /\ messages_sent_ = StatsOutputs - 1

\* ---- ConfidenceBasedPrioritizer (algorithm_strategies.cpp)
\* the longest vector a caller passes
MaxTargets == 3
\* confidences, in tenths
Confidences == {3, 7, 9}

\* the targets a caller may point to
TargetPool ==
    [target_id : {TargetName(n) : n \in 1..MaxTargets}, confidence : Confidences]

\* the vectors of up to MaxTargets pointers to different targets
TargetVectors ==
    {v \in UNION {[1..n -> TargetPool] : n \in 0..MaxTargets} :
        \A i, j \in DOMAIN v : i # j => v[i].target_id # v[j].target_id}

\* lines 15-18
calculate_priority(target) == target.confidence

\* a comparator that puts the lower priority first
sorts_before_lower(a, b) == calculate_priority(a) < calculate_priority(b)

\* lines 23-25: the comparator of std::sort
sorts_before(a, b) == calculate_priority(a) > calculate_priority(b)

\* std::sort of a short range is an insertion sort: value goes in front of
\* the elements at the end of the sorted prefix that it sorts before
RECURSIVE insert(_, _)
insert(sorted, value) ==
    IF sorted # <<>> /\ sorts_before(value, sorted[Len(sorted)])
    THEN Append(insert(SubSeq(sorted, 1, Len(sorted) - 1), value), sorted[Len(sorted)])
    ELSE Append(sorted, value)

RECURSIVE std_sort(_)
std_sort(list) ==
    IF list = <<>> THEN <<>>
    ELSE insert(std_sort(SubSeq(list, 1, Len(list) - 1)), list[Len(list)])

\* lines 20-28
prioritize_targets(list) == std_sort(list)

\* std::max_element with the comparator of lines 35-37: the first element
\* that no later element exceeds
RECURSIVE max_element(_, _, _)
max_element(list, largest, i) ==
    IF i > Len(list) THEN largest
    ELSE max_element(list,
                     IF calculate_priority(list[largest]) < calculate_priority(list[i])
                     THEN i ELSE largest,
                     i + 1)

\* lines 30-38
select_highest_priority_target(list) ==
    IF list = <<>> THEN NullTarget ELSE list[max_element(list, 1, 2)]

StratFrame ==
    UNCHANGED <<regVars, tmVars, mgrVars, envVars, algVars, thrown, statVars, pendingAtStop>>

\* prioritize_targets(targets, context): the caller's vector is passed by
\* reference and sorted in place; the result is a copy of it
PrioritizeTargets ==
    /\ target_list' = prioritize_targets(target_list)
    /\ prioritized' = prioritize_targets(target_list)
    /\ stratOp' = "prioritize_targets"
    /\ UNCHANGED <<given, best>>
    /\ StratFrame

\* select_highest_priority_target(targets, context)
SelectHighestPriorityTarget ==
    /\ best' = select_highest_priority_target(target_list)
    /\ stratOp' = "select_highest_priority_target"
    /\ UNCHANGED <<target_list, given, prioritized>>
    /\ StratFrame

\* the caller holds any vector of targets
StratInit ==
    /\ RegInit /\ TmInit /\ MgrInit(DefaultConfig, 0) /\ AlgInit /\ StatInit
    /\ target_list \in TargetVectors
    /\ given = target_list
    /\ prioritized = <<>>
    /\ best = NullTarget
    /\ stratOp = "none"

StratNext == PrioritizeTargets \/ SelectHighestPriorityTarget

SpecPrioritizer == StratInit /\ [][StratNext]_vars

\* list holds the elements of other, each as often
IsPermutation(list, other) ==
    /\ Len(list) = Len(other)
    /\ \A target \in SeqToSet(list) \cup SeqToSet(other) :
           Cardinality({i \in DOMAIN list : list[i] = target})
               = Cardinality({i \in DOMAIN other : other[i] = target})

\* C26: prioritize_targets returns a permutation of its input in which no
\* target has a lower priority than a later one; select_highest_priority_target
\* returns null for an empty vector and otherwise one of its targets, of a
\* priority no other target exceeds
PrioritizerOrder ==
    /\ stratOp = "prioritize_targets" =>
           /\ IsPermutation(prioritized, given)
           /\ \A i, j \in DOMAIN prioritized :
                  i < j => calculate_priority(prioritized[i]) >= calculate_priority(prioritized[j])
    /\ stratOp = "select_highest_priority_target" =>
           IF given = <<>> THEN best = NullTarget
           ELSE /\ best \in SeqToSet(given)
                /\ \A i \in DOMAIN given :
                       calculate_priority(best) >= calculate_priority(given[i])

\* a vector whose highest priority comes last and is shared by no other
\* target was sorted, and its best target then selected
PrioritizerWitness ==
    /\ stratOp = "select_highest_priority_target"
    /\ Len(given) = MaxTargets
    /\ prioritized # <<>>
    /\ prioritized # given
    /\ best = given[MaxTargets]
    /\ \A i \in 1..(MaxTargets - 1) :
           calculate_priority(given[i]) < calculate_priority(given[MaxTargets])

\* ---- stop(): the threads of a started manager, one message on the bus, and
\* start() and stop() called in turn
StopWorker(w) ==
    \/ WorkerWait(w)
    \/ WorkerBlock(w)
    \/ WorkerLockAlgorithm(w)
    \/ WorkerProcess(w)
    \/ WorkerReturn(w)
    \/ Drain(w, "top")

StopMonitor ==
    \/ MonitorSweep
    \/ MonitorLockAlgorithm

StopDelivery ==
    \/ SubscriptionEnqueue
    \/ SubscriptionExit

StopApi ==
    \/ SetAlgorithmCheck
    \/ SetAlgorithmInstall

StopStart ==
    \/ StartCheck
    \/ StartLockAlgorithm
    \/ StartInitialize
    \/ StartInitialized
    \/ StartSpawn

\* stop() after its first three statements
StopSteps ==
    \/ StopJoin
    \/ StopLockAlgorithm
    \/ StopShutdown
    \/ StopReturn

StopNext ==
    \/ StopApi
    \/ StopStart
    \/ StopSignal
    \/ StopSteps
    \/ \E w \in Workers : StopWorker(w)
    \/ Ticker
    \/ StopMonitor
    \/ HeartbeatSend
    \/ SubscriptionReceive({"sensor_data"}, {"A"}, LifeMessages)
    \/ StopDelivery

SpecStop == StartInit /\ [][StopNext]_vars

\* every thread that can take a step is scheduled in the end, and a stop()
\* that was called runs on
SpecStopLive ==
    /\ SpecStop
    /\ \A w \in Workers : WF_vars(StopWorker(w))
    /\ WF_vars(Ticker)
    /\ WF_vars(StopMonitor)
    /\ WF_vars(HeartbeatSend)
    /\ WF_vars(StopDelivery)
    /\ WF_vars(StopSteps)

\* C27: once stop() has set running_ to false and notified the condition
\* variable, every worker returns and stop() gets past its joins and calls
\* shutdown
StopTerminates ==
    (pc["ctl"] = "join") ~>
        (pc["ctl"] = "shutdown" /\ \A w \in Workers : pc[w] \in {"done", "off"})

\* C28: a message that was in message_queue_ when stop() began is never
\* passed to process_l1_message
QueuedAtStopNeverProcessed ==
    \A i \in DOMAIN processed : processed[i] \notin pendingAtStop

\* the thread holds algorithm_mutex_, shared or exclusive, or context_mutex_
HoldsLock(t) ==
    \/ algorithm_mutex_.writer = t
    \/ t \in algorithm_mutex_.readers
    \/ context_mutex_ = t

\* C29: a thread that is publishing, or has outputs in its local vector,
\* holds neither algorithm_mutex_ nor context_mutex_, and its outputs are no
\* longer in pending_outputs; and an output is published only from such a
\* local vector
PublishOutsideLocks ==
    /\ [](\A t \in DOMAIN messages_to_send :
              (pc[t] = "publish" \/ messages_to_send[t] # <<>>) =>
                  /\ ~HoldsLock(t)
                  /\ \A i \in DOMAIN messages_to_send[t] :
                         \A j \in DOMAIN pending_outputs :
                             pending_outputs[j] # messages_to_send[t][i])
    /\ [][published' # published =>
              \E t \in DOMAIN messages_to_send :
                  /\ pc[t] = "publish"
                  /\ ~HoldsLock(t)
                  /\ messages_to_send[t] # <<>>
                  /\ published' = Append(published, Head(messages_to_send[t]))]_vars

\* a thread publishes while another is inside a hook, holding both locks
PublishOutsideLocksWitness ==
    \E t \in DOMAIN messages_to_send, u \in Threads :
        /\ pc[t] = "publish"
        /\ InHook(u)
        /\ context_mutex_ = u
        /\ published # <<>>

\* ---- lock ordering: every thread of SpecMgr, and get_stats called by the
\* "api" thread
\* lines 322-325: get_stats copies current_state_name under context_mutex_
GetStatsContext ==
    /\ pc["api"] = "ready"
    /\ context_mutex_ = NoThread
    /\ pc' = [pc EXCEPT !["api"] = "get_stats"]
    /\ UNCHANGED <<config_, algorithm_, running_, subscription_running_, message_queue_,
                   algorithm_mutex_, context_mutex_, queue_mutex_, pending_outputs,
                   message, messages_to_send, removed, inbound>>
    /\ UNCHANGED <<envVars, regVars, tmVars, algVars, callVars>>

\* lines 327-333: the counters are loaded and get_active_nodes reads the
\* registry under its own lock
GetStatsRegistry ==
    /\ pc["api"] = "get_stats"
    /\ pc' = [pc EXCEPT !["api"] = "ready"]
    /\ UNCHANGED <<config_, algorithm_, running_, subscription_running_, message_queue_,
                   algorithm_mutex_, context_mutex_, queue_mutex_, pending_outputs,
                   message, messages_to_send, removed, inbound>>
    /\ UNCHANGED <<envVars, regVars, tmVars, algVars, callVars>>

LocksNext ==
    \/ MgrNext
    \/ GetStatsContext
    \/ GetStatsRegistry

SpecLocks == Init /\ [][LocksNext]_vars

\* the place of each lock in the order
LockRank ==
    [algorithm |-> 1, context |-> 2, registry |-> 3, task_manager |-> 4, queue |-> 5,
     bus |-> 6]

\* the locks a thread holds
Held(t) ==
    (IF algorithm_mutex_.writer = t \/ t \in algorithm_mutex_.readers
     THEN {"algorithm"} ELSE {})
    \cup (IF context_mutex_ = t THEN {"context"} ELSE {})
    \cup (IF queue_mutex_ = t THEN {"queue"} ELSE {})

\* the locks the next statements of a thread acquire: the hooks call the
\* Task Manager, register_node, the sweep and get_active_nodes lock the
\* registry, enqueue_message and the wait lock the queue, publish the bus
Acquires(t) ==
    IF InHook(t) THEN {"task_manager"}
    ELSE IF pc[t] = "lock_context" \/ pc[t] = "drain"
            \/ pc[t] \in {"start_lock_context", "stop_lock_context"} THEN {"context"}
    ELSE IF pc[t] \in {"got", "start_lock", "stop_lock", "set_algorithm"} THEN {"algorithm"}
    ELSE IF pc[t] = "publish" THEN {"bus"}
    ELSE IF pc[t] = "get_stats" THEN {"registry"}
    ELSE IF pc[t] = "dispatch" THEN {"registry", "queue"}
    ELSE IF pc[t] = "for" THEN (IF removed # <<>> THEN {"algorithm"} ELSE {})
    ELSE IF pc[t] = "top"
    THEN (IF t \in Workers THEN {"queue"}
          ELSE IF t = "ticker" THEN (IF running_ THEN {"algorithm"} ELSE {})
          ELSE IF t = "monitor" THEN (IF running_ THEN {"registry"} ELSE {})
          ELSE IF t = "subscription" THEN {"registry"}
          ELSE IF t = "heartbeat" THEN (IF running_ THEN {"bus"} ELSE {})
          ELSE {})
    ELSE {}

\* the threads whose locks keep t from its next acquisition
WaitsFor(t) ==
    (IF "algorithm" \in Acquires(t)
     THEN (IF pc[t] \in {"start_lock", "stop_lock", "set_algorithm"}
           THEN algorithm_mutex_.readers \cup {algorithm_mutex_.writer}
           ELSE {algorithm_mutex_.writer})
     ELSE {})
    \cup (IF "context" \in Acquires(t) THEN {context_mutex_} ELSE {})
    \cup (IF "queue" \in Acquires(t) /\ pc[t] # "dispatch" THEN {queue_mutex_} ELSE {})

Waiting == {t \in Threads : WaitsFor(t) \ {NoThread} # {}}

\* C30: a thread acquires a lock only while every lock it holds comes
\* earlier in the order algorithm, context, registry, task manager, queue,
\* bus; and no set of threads waits for locks that only its own members hold
LockOrdering ==
    /\ \A t \in Threads :
           \A held \in Held(t), next \in Acquires(t) : LockRank[held] < LockRank[next]
    /\ \A D \in SUBSET Waiting :
           D # {} => \E t \in D : (WaitsFor(t) \ {NoThread}) \cap D = {}

\* a worker holds algorithm_mutex_ and waits for context_mutex_, which
\* another thread holds, while a second thread waits for a lock as well
LockOrderingWitness ==
    \E w \in Workers :
        /\ pc[w] = "lock_context"
        /\ "algorithm" \in Held(w)
        /\ context_mutex_ \notin {NoThread, w}
        /\ pc["ctl"] \in {"start_lock", "stop_lock"} \/ pc["monitor"] = "for"
        /\ Cardinality(Waiting) >= 2

\* ---- exceptions thrown by the hooks a spawned thread calls
\* lines 443-455: update throws a std::exception; the scope's locks are
\* released, send_pending_outputs is skipped, the catch logs and the ticker
\* sleeps until its next tick
TickerThrow ==
    /\ pc["ticker"] = "update"
    /\ HookReturn("ticker", "top")
    /\ ReturnFrame

\* std::terminate: no thread of the process takes another step
terminate(p) == [t \in DOMAIN p |-> "aborted"]

\* lines 474-482: handle_trigger throws; node_monitor_thread_func has no
\* try block, so the exception leaves the thread's function and
\* std::terminate ends the process
MonitorThrow ==
    /\ pc["monitor"] = "handle_trigger"
    /\ pc' = terminate(pc)
    /\ emitting' = <<>>
    /\ unlock_algorithm("monitor")
    /\ context_mutex_' = NoThread
    /\ ReturnFrame

ThrowSubscription ==
    \/ SubscriptionReceive({"sensor_data"}, {"A"}, LifeMessages)
    \/ SubscriptionEnqueue

ThrowNext ==
    \/ EvictApi
    \/ EvictStart
    \/ Worker
    \/ \E w \in Workers : WorkerThrow(w)
    \/ Ticker
    \/ TickerThrow
    \/ Monitor
    \/ MonitorThrow
    \/ ThrowSubscription
    \/ Clock

SpecThrow == Init /\ [][ThrowNext]_vars

\* C31: an exception thrown by a hook that a worker, the ticker or the
\* monitor calls is contained: no thread of the manager is ended by it
HookExceptionContained == \A t \in Threads : pc[t] # "aborted"

\* ---- inbound dispatch: messages of every payload case, with and without a
\* sender, and the worker that takes what was enqueued
DispatchMessages == 3

DispatchSubscription ==
    \/ SubscriptionReceive(PayloadCases, {"A", "B", NoSender}, DispatchMessages)
    \/ SubscriptionRegistry
    \/ SubscriptionEnqueue

DispatchNext ==
    \/ EvictApi
    \/ EvictStart
    \/ DispatchSubscription
    \/ QueueWorker

SpecDispatch == QueueInit /\ [][DispatchNext]_vars

\* the ids a worker holds or the algorithm has been given
Taken == {message[w] : w \in Workers} \cup SeqToSet(processed)

\* C32: when a message is handed to the callback its sender, if it has one,
\* is registered by that step and nothing else is done with the message; a
\* node_status or heartbeat message then leaves the queue as it is; every
\* other message is put at the back of the queue, where it was not before,
\* with the registry as the callback's register left it; and the queue and
\* the algorithm get no id in any other way
InboundDispatch ==
    [][/\ (pc["subscription"] = "top" /\ pc'["subscription"] = "dispatch") =>
              /\ inbound'.sender # "" =>
                     /\ inbound'.sender \in DOMAIN nodes_'
                     /\ last_seen_'[inbound'.sender] = now
                     /\ regOp' = [op |-> "register", ids |-> {inbound'.sender}]
              /\ inbound'.sender = "" => UNCHANGED <<nodes_, last_seen_, node_status_>>
              /\ UNCHANGED <<message_queue_, processed, message>>
       /\ (pc["subscription"] = "dispatch" /\ pc'["subscription"] # "dispatch") =>
              IF inbound.payload \in {"node_status", "heartbeat"}
              THEN /\ UNCHANGED <<message_queue_, processed, message>>
                   /\ regOp'.op = (IF inbound.payload = "heartbeat" THEN "heartbeat" ELSE "status")
                   /\ regOp'.ids = {inbound.sender}
              ELSE /\ message_queue_' # <<>>
                   /\ message_queue_'[Len(message_queue_')] = inbound.id
                   /\ inbound.id \notin SeqToSet(message_queue_) \cup Taken \cup dropped
                   /\ Cardinality({i \in DOMAIN message_queue_' :
                                       message_queue_'[i] = inbound.id}) = 1
                   /\ UNCHANGED <<nodes_, last_seen_, node_status_, regOp>>
       /\ \A id \in SeqToSet(message_queue_') \ SeqToSet(message_queue_) :
              /\ pc["subscription"] = "dispatch"
              /\ id = inbound.id
              /\ inbound.payload \notin {"node_status", "heartbeat"}
       /\ \A w \in Workers :
              message'[w] # message[w] =>
                  message_queue_ # <<>> /\ message'[w] = Head(message_queue_)
       /\ processed' # processed =>
              \E w \in Workers : processed' = Append(processed, message[w])
      ]_vars

\* a heartbeat and a node_status message were handled and a sensor message
\* of a node that was registered by it has reached the algorithm
InboundDispatchWitness ==
    /\ arrived = DispatchMessages
    /\ pc["subscription"] = "top"
    /\ Len(processed) = 1
    /\ message_queue_ = <<>>
    /\ node_status_ # EmptyMap
    /\ Cardinality(DOMAIN last_seen_) >= 2

\* ---- the reference algorithm under every kind of sensor data, updates,
\* the clock and the triggers of trigger_algorithm_event
\* a cluster of cluster_lidar_points: its centroid and its number of points
Clusters == [x : Ranges, points : {5, 20}]

\* line 331: cluster.size() > 10
is_object(cluster) == cluster.points > 10

\* process_lidar_data, lines 315-363, on a scan of one cluster; closest is
\* what find_closest_target returned for its centroid
process_lidar_data(S, node_id, cluster, closest, t) ==
    IF ~HasData(S, "targets") THEN S
    ELSE LET targets == S.data["targets"]
             target_id == IF closest = NoTarget THEN TargetName(Cardinality(DOMAIN targets))
                          ELSE closest
             known == IF closest = NoTarget THEN NewTarget ELSE targets[closest]
             after == IF is_object(cluster)
                      THEN MapPut(targets, target_id,
                                  update_target_position(known, cluster.x, 600, node_id, t))
                      ELSE targets
         IN  SetData(S, "targets", after)

\* a worker's process_l1_message(context, message) of a lidar scan
AlgProcessLidar ==
    /\ current_state_name # NoState
    /\ pending_outputs = <<>>
    /\ now = 0
    /\ arrived < MaxDetections
    /\ \E node_id \in NodeIds, cluster \in Clusters :
           LET targets == algorithm_data["targets"]
               found == IF is_object(cluster)
                        THEN closest_targets(targets, cluster.x) ELSE {}
           IN  \E closest \in (IF found = {} THEN {NoTarget} ELSE found) :
                   /\ Store(process_lidar_data(Ctx, node_id, cluster, closest, now),
                            state_manager_)
                   /\ IF is_object(cluster) /\ found = {}
                      THEN track_new_target(TargetName(Cardinality(DOMAIN targets)),
                                            algorithm_data["default_device_id"])
                      ELSE UNCHANGED tmVars
           /\ message_history' = store_message(message_history, node_id, arrived + 1)
    /\ arrived' = arrived + 1
    /\ algOp' = [op |-> "process_lidar", from |-> current_state_name]
    /\ UNCHANGED <<state_manager_, updated, smRest, now>>
    /\ UNCHANGED <<regRest, envRest, mgrRest, callVars>>

\* process_image_data, lines 365-373, only logs
process_image_data(S) == S

\* a worker's process_l1_message(context, message) of an image
AlgProcessImage ==
    /\ current_state_name # NoState
    /\ pending_outputs = <<>>
    /\ now = 0
    /\ arrived < MaxDetections
    /\ Store(process_image_data(Ctx), state_manager_)
    /\ \E node_id \in NodeIds :
           message_history' = store_message(message_history, node_id, arrived + 1)
    /\ arrived' = arrived + 1
    /\ algOp' = [op |-> "process_image", from |-> current_state_name]
    /\ UNCHANGED <<state_manager_, updated, smRest, now>>
    /\ UNCHANGED <<regRest, envRest, mgrRest, tmVars, callVars>>

\* the clock steps of this specification
RefJumps == 2

\* the steady clock advances by 40 seconds, which is more than the 30 seconds
\* of the search in LOST and than twice target_timeout; update has run since
\* the last step
RefTick ==
    /\ current_state_name # NoState
    /\ updated
    /\ now < RefJumps * 4 * Parameters.target_timeout
    /\ now' = now + 4 * Parameters.target_timeout
    /\ updated' = FALSE
    /\ UNCHANGED <<state_manager_, current_state_name, current_state, algorithm_data,
                   last_status_time_, algOp, smRest, arrived, message_history>>
    /\ UNCHANGED <<regRest, envRest, mgrVars, tmVars, callVars>>

RefNext == ResetNext \/ AlgProcessLidar \/ AlgProcessImage \/ RefTick

SpecRef == TrackInit /\ [][RefNext]_vars

\* the transitions of the reference algorithm: from, to, trigger
Listed ==
    {<<"IDLE", "ACQUIRING", "detection">>, <<"ACQUIRING", "TRACKING", "confirmed">>,
     <<"ACQUIRING", "IDLE", "false_positive">>, <<"TRACKING", "LOST", "lost">>,
     <<"LOST", "TRACKING", "reacquired">>, <<"LOST", "IDLE", "timeout">>,
     <<"IDLE", "IDLE", "reset">>, <<"ACQUIRING", "IDLE", "reset">>,
     <<"TRACKING", "IDLE", "reset">>, <<"LOST", "IDLE", "reset">>}

\* the trigger a call made in state from hands to the state machine
TriggerOf(op, from) ==
    CASE op = "process" -> "detection"
      [] op = "target_detected" -> "detection"
      [] op = "target_lost" -> "lost"
      [] op = "update" -> (CASE from = "IDLE" -> "detection"
                             [] from = "ACQUIRING" -> "confirmed"
                             [] from = "TRACKING" -> "lost"
                             [] OTHER -> "timeout")
      [] OTHER -> op

\* C33: once initialize has run the state is one of IDLE, ACQUIRING,
\* TRACKING and LOST, and every call that changes it makes a listed
\* transition with the trigger of that call; TRACKING is never entered from IDLE
RefStateSafety ==
    /\ [](current_state_name # NoState =>
              current_state_name \in {"IDLE", "ACQUIRING", "TRACKING", "LOST"})
    /\ [][(current_state_name # NoState /\ current_state_name' # current_state_name) =>
              /\ <<current_state_name, current_state_name',
                   TriggerOf(algOp'.op, current_state_name)>> \in Listed
              /\ algOp'.from = current_state_name
              /\ ~(current_state_name = "IDLE" /\ current_state_name' = "TRACKING")]_vars

\* TRACKING was entered again from LOST, which an update had entered
RefStateWitness ==
    /\ algOp = [op |-> "reacquired", from |-> "LOST"]
    /\ current_state_name = "TRACKING"
    /\ now > 0
    /\ Targets # EmptyMap

\* C40: a process_l1_message call made in LOST, of radar, lidar or image
\* data, leaves the state LOST; LOST is left only by an update more than 30
\* seconds after it was entered (to IDLE), by reset or the trigger timeout
\* (to IDLE), or by the trigger reacquired (to TRACKING)
LostIsLeftByTimeoutOrTrigger ==
    [][/\ (current_state_name = "LOST" /\ arrived' # arrived) =>
              /\ current_state_name' = "LOST"
              /\ current_state' = "LOST"
       /\ (current_state_name = "LOST" /\ current_state_name' # "LOST") =>
              \/ /\ algOp'.op = "update"
                 /\ now - algorithm_data["lost_start"] > 30
                 /\ current_state_name' = "IDLE"
              \/ algOp'.op \in {"reset", "timeout"} /\ current_state_name' = "IDLE"
              \/ algOp'.op = "reacquired" /\ current_state_name' = "TRACKING"
      ]_vars

\* a radar detection that passed the filter was processed in LOST
ProcessedInLostWitness ==
    /\ algOp = [op |-> "process", from |-> "LOST"]
    /\ current_state_name = "LOST"
    /\ Targets # EmptyMap
    /\ arrived = MaxDetections

\* ---- update_all_tasks and the periodic cleanup; the clock counts minutes
\* line 558: std::chrono::minutes(5)
CleanupPeriod == 5

\* line 636: std::chrono::hours(1)
CleanupAge == 60

\* update_all_tasks, lines 547-563: no task's state machine has an on_update
\* hook; when a cleanup is due only last_cleanup_time_ is written, the call
\* of cleanup_completed_tasks being a comment
update_all_tasks ==
    /\ last_cleanup_time_' = IF now - last_cleanup_time_ > CleanupPeriod
                             THEN now ELSE last_cleanup_time_
    /\ tmOp' = [op |-> "update_all", task |-> 0, device |-> NoDevice, ok |-> TRUE]
    /\ UNCHANGED <<tasks_, target_to_tasks_, device_to_tasks_, target_primary_device_,
                   next_task_id_, issued>>

UpdateAllTasks ==
    /\ update_all_tasks
    /\ UNCHANGED <<regVars, mgrVars, envVars, algVars, callVars>>

\* the clock steps of this specification, of half an hour each
CleanupTicks == 3

CleanupTick ==
    /\ now < CleanupTicks * 30
    /\ now' = now + 30
    /\ UNCHANGED <<nodes_, last_seen_, node_status_, regOp, reported, evictedSince>>
    /\ UNCHANGED <<tmVars, mgrVars, envVars, algVars, callVars>>

CleanupNext ==
    \/ LifecycleCreate
    \/ LifecycleAssign
    \/ SetStatus
    \/ UpdateAllTasks
    \/ CleanupTick

SpecCleanup == Init /\ [][CleanupNext]_vars

\* C34: an update_all_tasks that runs more than 5 minutes after the last
\* cleanup removes every task in a terminal status that was completed more
\* than an hour ago
TerminalTasksAreCleaned ==
    [][(update_all_tasks /\ now - last_cleanup_time_ > CleanupPeriod) =>
           \A task_id \in DOMAIN tasks_ :
               (/\ tasks_[task_id].status \in {"COMPLETED", "FAILED", "CANCELLED"}
                /\ tasks_[task_id].completed_time < now - CleanupAge)
                   => task_id \notin DOMAIN tasks_']_vars

\* ---- the message history under more messages than it keeps
\* messages the bus delivers in this specification
HistoryMessages == 102

\* how many of them come from node B
HistoryOthers == 1

\* a worker's process_l1_message(context, message) of a message that has
\* neither sensor data nor a capability advertisement, or whose capability
\* advertisement is only logged (lines 376-382): lines 93-116 store it
AlgProcessOther(senders) ==
    /\ current_state_name # NoState
    /\ \E node_id \in senders :
           message_history' = store_message(message_history, node_id, arrived + 1)
    /\ arrived' = arrived + 1
    /\ algOp' = [op |-> "process_other", from |-> current_state_name]
    /\ UNCHANGED <<state_manager_, current_state_name, current_state, algorithm_data,
                   last_status_time_, pending_outputs, updated, smRest, now>>
    /\ UNCHANGED <<regRest, envRest, mgrRest, tmVars, callVars>>

HistoryProcess ==
    /\ arrived < HistoryMessages
    /\ AlgProcessOther(IF Len(Bucket(message_history, "B")) < HistoryOthers
                       THEN NodeIds ELSE {"A"})

HistoryNext == AlgInitialize \/ HistoryProcess

SpecHistory == TrackInit /\ [][HistoryNext]_vars

\* no node's history holds more than 100 messages
HistoryWithinCap ==
    \A node_id \in DOMAIN message_history : Len(message_history[node_id]) <= 100

\* C35 as stated: no history holds more than 100 entries, and a message
\* appended to a history of 100 leaves the 50 most recent messages
HistoryTrimmedToFifty ==
    /\ []HistoryWithinCap
    /\ [][\A node_id \in NodeIds :
              LET old == Bucket(message_history, node_id)
                  new == Bucket(message_history', node_id)
                  all == Append(old, arrived + 1)
              IN  (new # old /\ Len(old) = 100) =>
                      /\ Len(new) = 50
                      /\ new = SubSeq(all, 52, 101)]_vars

\* C35: no history holds more than 100 entries; a message appended to a
\* history of fewer than 100 is added at its end, and one appended to a
\* history of 100 drops the 50 oldest in the same step, which leaves the
\* 51 most recent messages in arrival order
HistoryDropsOldestFifty ==
    /\ []HistoryWithinCap
    /\ [][\A node_id \in NodeIds :
              LET old == Bucket(message_history, node_id)
                  new == Bucket(message_history', node_id)
                  all == Append(old, arrived + 1)
              IN  new # old =>
                      IF Len(old) = 100
                      THEN Len(new) = 51 /\ new = SubSeq(all, 51, 101)
                      ELSE new = all]_vars

\* node A's history has been trimmed at its 101st message, and node B has
\* sent a message as well
HistoryTrimmedWitness ==
    /\ "A" \in DOMAIN message_history
    /\ "B" \in DOMAIN message_history
    /\ Len(message_history["A"]) = 51
    /\ arrived = HistoryMessages
    /\ message_history["A"][1] > 50

\* the outputs that are in the context, in a thread's local vector or were
\* handed to publish, with the place of each
Places ==
    {<<"pending", i, pending_outputs[i]>> : i \in DOMAIN pending_outputs}
    \cup UNION {{<<t, i, messages_to_send[t][i]>> : i \in DOMAIN messages_to_send[t]} :
                    t \in DOMAIN messages_to_send}
    \cup {<<"published", i, published[i]>> : i \in DOMAIN published}

\* C36: every output the algorithm has appended is in exactly one place: still
\* in pending_outputs, in the local vector of the one thread that moved it
\* out, or handed to publish once
OutputsHandedOnce ==
    /\ Cardinality(Places) = MaxOutputs - outLeft
    /\ \A p, q \in Places : p[3] = q[3] => p = q
    /\ \A p \in Places : p[3].call \in 1..calls

\* a worker and the ticker each hold outputs they moved out while a later
\* output waits in the context: two drains ran between three appends
OutputsHandedOnceWitness ==
    /\ pending_outputs # <<>>
    /\ messages_to_send["ticker"] # <<>>
    /\ \E w \in Workers : messages_to_send[w] # <<>>

\* ---- stop() of a started manager whose algorithm appends outputs in update
\* and in shutdown
ShutOutputs == 2

ShutInit == RegInit /\ TmInit /\ MgrInit(DefaultConfig, ShutOutputs) /\ AlgInit /\ CallInit

ShutWorker(w) ==
    \/ WorkerWait(w)
    \/ WorkerBlock(w)

\* add_output_message called by update on the ticker thread, and by shutdown
\* on the thread that called stop()
ShutEmit ==
    \/ HookEmit("ticker")
    \/ pc["ctl"] = "shutdown" /\ HookEmit("ctl")

ShutNext ==
    \/ StopApi
    \/ StopStart
    \/ StopSignal
    \/ StopSteps
    \/ \E w \in Workers : ShutWorker(w)
    \/ OutTicker
    \/ MonitorSweep
    \/ HeartbeatSend
    \/ SubscriptionExit
    \/ ShutEmit

SpecShut == ShutInit /\ [][ShutNext]_vars

\* every thread of the manager that can take a step is scheduled in the end,
\* and a stop() that was called runs on; nobody is obliged to call start()
\* again
SpecShutLive ==
    /\ SpecShut
    /\ \A w \in Workers : WF_vars(ShutWorker(w))
    /\ WF_vars(OutTicker)
    /\ WF_vars(MonitorSweep)
    /\ WF_vars(HeartbeatSend)
    /\ WF_vars(SubscriptionExit)
    /\ WF_vars(StopSteps)

ShutOuts == [call : 1..ShutOutputs, seq : 1..2]

\* C37: every output appended to pending_outputs is handed to publish in the
\* end, the outputs that shutdown appends during stop() included
OutputsEventuallyPublished ==
    \A out \in ShutOuts :
        (out \in SeqToSet(pending_outputs)) ~> (out \in SeqToSet(published))

\* stop() has returned, no thread of the manager is left, and an output that
\* shutdown appended is still in pending_outputs
ShutdownOutputLeft ==
    /\ pc["ctl"] = "ready"
    /\ ~running_
    /\ \A t \in SpawnedTasks(config_) : pc[t] = "off"
    /\ pending_outputs # <<>>

\* ---- detections that arrive while the clock runs and targets expire
ExpiryDetections == 3

ExpiryTicks == 3

ExpiryProcess == AlgProcessRadar(ExpiryDetections)

ExpiryTick ==
    /\ now < ExpiryTicks * Parameters.target_timeout
    /\ AlgTick

ExpiryNext == AlgInitialize \/ ExpiryProcess \/ AlgUpdate \/ AlgSend \/ ExpiryTick

SpecExpiry == TrackInit /\ [][ExpiryNext]_vars

\* C38: the id target_<n> chosen for a newly created target, n being the size
\* of the targets map, is the id of no target in the map; the task of the new
\* target is created in the same call
NewTargetIdIsFresh ==
    [][algOp'.op = "process" /\ next_task_id_' # next_task_id_
           => TargetName(Cardinality(DOMAIN Targets)) \notin DOMAIN Targets]_vars

\* target_1 is the only target left after target_0 expired, and stands for a
\* second time as the target of a new task
TargetOverwritten ==
    /\ DOMAIN Targets = {TargetName(1)}
    /\ TargetName(1) \in DOMAIN target_to_tasks_
    /\ Len(target_to_tasks_[TargetName(1)]) = 2

\* ---- start() with an algorithm whose initialize throws
\* line 219: initialize throws; the two locks are released as the exception
\* leaves the block, and start() is left by it with running_ as line 214
\* set it
StartInitializeThrow ==
    /\ pc["ctl"] = "initialize"
    /\ HookReturn("ctl", "ready")
    /\ thrown' = 1
    /\ UNCHANGED statVars
    /\ UNCHANGED <<stratVars, pendingAtStop>>
    /\ UNCHANGED <<config_, algorithm_, running_, subscription_running_, message_queue_,
                   queue_mutex_, pending_outputs, message, messages_to_send, removed, inbound>>
    /\ UNCHANGED <<arrived, dropped, processed, calls, outLeft, published, initialized,
                   overlooked, algorithmAtStart, triggers>>
    /\ UNCHANGED <<regVars, tmVars, algVars>>

StartFailNext == StartNext \/ StartInitializeThrow

SpecStartFail == StartInit /\ [][StartFailNext]_vars

\* C39: a start() that fails because initialize throws does not leave the
\* manager RUNNING
InitializeFailureLeavesStopped ==
    [][pc["ctl"] = "initialize" /\ pc'["ctl"] = "ready" => ~running_']_vars

\* start() has thrown out of initialize: the manager is RUNNING with none of
\* its threads spawned, so that start() returns at its first check and
\* set_algorithm throws
RunningWithoutThreads ==
    /\ pc["ctl"] = "ready"
    /\ thrown = 1
    /\ running_
    /\ algorithmAtStart # NoAlgorithm
    /\ \A t \in SpawnedTasks(config_) : pc[t] = "off"
    /\ ~ENABLED StartCheck

====
